---- MODULE Spec2Model ----
(***************************************************************************)
(* Model of the trading bot's parameter optimizer (bot/optimizer.py): the  *)
(* weight grids, one optimization cycle, the backtest it runs with the     *)
(* strategies of bot/strategies/signal.py and the tick rounding of         *)
(* bot/exchange/upbit.py, and its persistence call (bot/db/storage.py).    *)
(*                                                                         *)
(* Floating point numbers are modelled as fixed point numbers. Weights are *)
(* two-limb numbers [hi, lo] of value (hi * LIMB + lo) * 1e-12, so that    *)
(* round(v, 10) and the 1e-6 tolerance of the source are both expressible  *)
(* in TLC's 32 bit integers; every float operation that rounds in the      *)
(* source rounds here too (to 1e-12, which is coarser than a double).      *)
(* The amounts of the backtest have their own units, see there.            *)
(***************************************************************************)
EXTENDS Integers, Sequences, FiniteSets, TLC

VARIABLES
    \* ---- grid generator (bot/optimizer.py, _generate_weight_grid and
    \*      _generate_neighbor_weights) ----
    gPc,            \* "config" | "coarse" | "fine": what has been generated so far
    strategyKeys,   \* the strategy key list the grid is generated for
    coarseStep,     \* settings.opt_coarse_step as configured: [num, c] (c = hundredths)
    fineStep,       \* settings.opt_fine_step, a weight (fixed point)
    candidates,     \* list returned by _generate_weight_grid
    baseWeights,    \* the base vector handed to _generate_neighbor_weights
    neighbors,      \* list returned by _generate_neighbor_weights
    \* ---- optimizer_results table and save_optimizer_result transactions
    \*      (bot/db/storage.py) ----
    rows,           \* committed rows of optimizer_results, in insertion order
    txPc,           \* per transaction: the statement it is at
    txMarkBest,     \* per transaction: the mark_best argument
    txTargets,      \* per transaction: rows of the running statement still to lock
    txLocks,        \* per transaction: row locks held
    txWrites,       \* per transaction: rows it has set is_best = FALSE (uncommitted)
    txBestBefore,   \* per transaction: the rows flagged best when the call started
    txFailedAt,     \* per transaction: the statement at which it failed
    \* ---- one optimization cycle: optimizer.run() (bot/optimizer.py) ----
    oPhase,         \* where run() is: IDLE, COARSE_RUNNING, ... (see OptPhases)
    numCandles,     \* len(candles) returned by load_ohlcv
    thresholds,     \* list returned by _generate_threshold_candidates (hundredths)
    topPercent,     \* settings.opt_top_percent, in percent
    maxWorkers,     \* settings.opt_threads
    tasks,          \* the backtests submitted to the executors so far, in order
    collected,      \* how many results of the running stage run() has appended
    aborting,       \* an evaluation's exception has reached run()
    coarseResults,  \* coarse_results, a list of (metrics, params)
    fineResults,    \* fine_results
    saveCalls,      \* the calls of save_optimizer_result made, in order
    topResults,     \* top_results of _run_fine_search (the seeds of stage 2)
    rPc,            \* selection of the seeds alone: "input" | "selected"
    \* ---- one backtest: _backtest (bot/optimizer.py) ----
    btPc,           \* "loop" | "returned" ("off": no backtest is modelled)
    candles,        \* the candle list: records [open, close], prices in KRW
    weights,        \* strategy key -> weight (fixed point)
    threshold,      \* the score threshold (fixed point)
    initial_cash,   \* in 1e-4 KRW
    fee_rate,       \* in 1e-4
    fee_buffer,     \* in 1e-4
    aggressiveness, \* in 1e-4
    window,         \* the window argument
    early_stop_threshold,   \* settings.opt_early_stop_threshold, in percent
    early_stop_candles,     \* settings.opt_early_stop_candles
    iStep,          \* the loop variable i of the next iteration
    cash_krw,       \* in 1e-4 KRW
    coin_qty,       \* in 1e-8 coin
    equity_curve,   \* list of equities, in 1e-4 KRW
    returns,        \* list of per-step returns, in 1e-6
    last_equity,
    win_trades,
    total_trades,
    trade_log,      \* history: the trades executed so far (lines 463, 481), in order
    btResult,       \* the metrics dict returned
    lastStep,       \* what the last iteration saw and did
    btRun,          \* how many calls with these arguments have returned before
    btFirstResult,  \* the metrics dict the first of them returned
    \* ---- calls of ensemble_signal (bot/strategies/signal.py) ----
    sgCalls,        \* how many calls have returned (-1: none is modelled)
    sgPrices,       \* the prices argument: a list of KRW prices
    sgWeights,      \* the weights argument: key -> weight (fixed point)
    sgVotes,        \* the signals dict of the last call
    sgScore,        \* the score returned by the last call
    sgFirstScore,   \* the score returned by the first call
    \* ---- calls of round_price_to_tick (bot/exchange/upbit.py) ----
    tkPrice,        \* the price argument, in 1e-4 KRW (0: none is modelled)
    tkMode,         \* the mode argument
    tkRounded,      \* the prices returned: by the call, by the call on its result
    \* ---- _generate_threshold_candidates (bot/optimizer.py) ----
    cfgRaw,         \* settings.opt_thresholds: a string, as a list of characters
    cfgThresholds,  \* what the call did: returned a list, or raised
    \* ---- the BUY block of _backtest in double arithmetic (bot/optimizer.py) ----
    buyArgs,        \* cash_krw, exec_price (KRW), fee_rate and fee_buffer (doubles)
    buyDone,        \* the locals after the block
    \* ---- collector.run and collect_data (bot/collector.py) ----
    cPc,            \* where collector.run is: "idle", before its "first" or "second" call, ...
    cTimeframe,     \* f"{unit}m"
    candleStore,    \* the committed rows of table candles
    cResponse,      \* the exchange response of the last call, if that call committed, and
                    \* whether the committed call before it had the same
    cCalls,         \* the calls of collect_data in this run: what each returned, -1: it raised
    cOutcome,       \* how the last run of collector.run ended for its caller
    \* ---- the chain of collect_and_trade (bot/tasks.py, bot/scheduler.py) ----
    chTicks,        \* per tick fired so far: the state of its three tasks
    \* ---- run_trade (bot/trader.py) ----
    trPc,           \* where run_trade is
    trIn,           \* what it reads: prices, weights, settings, account balances
    trOrder,        \* the order it has computed (side, price, volume)
    exOrders,       \* the orders the exchange has accepted
    dbOrders,       \* the committed rows of table orders
    dbTrades,       \* the committed rows of table trades
    txRows,         \* rows written by the open transaction, not yet committed
    trFills,        \* the trades of fetch_order not yet inserted
    trOut           \* what run_trade returned, or that it raised

gridVars == <<gPc, strategyKeys, coarseStep, fineStep, candidates, baseWeights, neighbors>>
dbVars == <<rows, txPc, txMarkBest, txTargets, txLocks, txWrites, txBestBefore, txFailedAt>>

optVars == <<oPhase, numCandles, thresholds, topPercent, maxWorkers, tasks, collected,
             aborting, coarseResults, fineResults, saveCalls, topResults, rPc>>

btInputs == <<candles, weights, threshold, initial_cash, fee_rate, fee_buffer, aggressiveness,
              window, early_stop_threshold, early_stop_candles>>
btVars == <<btInputs, btPc, iStep, cash_krw, coin_qty, equity_curve, returns, last_equity,
            win_trades, total_trades, trade_log, btResult, lastStep, btRun,
            btFirstResult>>

sgVars == <<sgCalls, sgPrices, sgWeights, sgVotes, sgScore, sgFirstScore>>

tkVars == <<tkPrice, tkMode, tkRounded>>
cfgVars == <<cfgRaw, cfgThresholds>>
buyVars == <<buyArgs, buyDone>>
colVars == <<cPc, cTimeframe, candleStore, cResponse, cCalls, cOutcome>>
chVars == <<chTicks>>
trVars == <<trPc, trIn, trOrder, exOrders, dbOrders, dbTrades, txRows, trFills, trOut>>
liveVars == <<colVars, chVars, trVars>>

vars == <<gridVars, dbVars, optVars, btVars, sgVars, tkVars, cfgVars, buyVars, liveVars>>

nonGridVars == <<dbVars, optVars, btVars, sgVars, tkVars, cfgVars, buyVars, liveVars>>
nonDbVars == <<gridVars, optVars, btVars, sgVars, tkVars, cfgVars, buyVars, liveVars>>
nonBtVars == <<gridVars, dbVars, optVars, sgVars, tkVars, cfgVars, buyVars, liveVars>>
nonSgVars == <<gridVars, dbVars, optVars, btVars, tkVars, cfgVars, buyVars, liveVars>>
nonTkVars == <<gridVars, dbVars, optVars, btVars, sgVars, cfgVars, buyVars, liveVars>>
nonCfgVars == <<gridVars, dbVars, optVars, btVars, sgVars, tkVars, buyVars, liveVars>>
nonBuyVars == <<gridVars, dbVars, optVars, btVars, sgVars, tkVars, cfgVars, liveVars>>
nonLiveVars == <<gridVars, dbVars, optVars, btVars, sgVars, tkVars, cfgVars, buyVars>>

-----------------------------------------------------------------------------
(* Generic helpers                                                         *)

Range(s) == {s[i] : i \in DOMAIN s}

RECURSIVE SumSeq(_)
SumSeq(s) == IF s = <<>> THEN 0 ELSE Head(s) + SumSeq(Tail(s))

RECURSIVE Flatten(_)
\* concatenation of a sequence of sequences
Flatten(ss) == IF ss = <<>> THEN <<>> ELSE Head(ss) \o Flatten(Tail(ss))

Min2(a, b) == IF a < b THEN a ELSE b
Max2(a, b) == IF a > b THEN a ELSE b

-----------------------------------------------------------------------------
(* Fixed point weights: value = (hi * LIMB + lo) * 1e-12, 0 <= lo < LIMB   *)

LIMB == 1000000

FxNorm(h, l) == [hi |-> h + (l \div LIMB), lo |-> l % LIMB]

FxZero == [hi |-> 0, lo |-> 0]
FxOne  == [hi |-> LIMB, lo |-> 0]              \* 1.0
FxTol  == [hi |-> 1, lo |-> 0]                 \* 1e-6

FxAdd(a, b) == FxNorm(a.hi + b.hi, a.lo + b.lo)
FxNeg(a)    == FxNorm(-a.hi, -a.lo)
FxSub(a, b) == FxAdd(a, FxNeg(b))
FxLt(a, b)  == a.hi < b.hi \/ (a.hi = b.hi /\ a.lo < b.lo)
FxAbs(a)    == IF a.hi < 0 THEN FxNeg(a) ELSE a

RECURSIVE FxSum(_)
\* sum(weights.values())
FxSum(ws) == IF ws = <<>> THEN FxZero ELSE FxAdd(Head(ws), FxSum(Tail(ws)))

\* float(x) / float(units) for integers 0 <= x <= units, rounded to 1e-12
FxRatio(x, units) ==
    LET h  == (x * LIMB) \div units
        r  == (x * LIMB) % units
        l  == (2 * r * LIMB + units) \div (2 * units)
    IN  FxNorm(h, l)

\* a number of hundredths as a weight (0.05 = FxCenti(5))
FxCenti(c) == FxNorm(c * (LIMB \div 100), 0)

\* round(v, 10): to the nearest multiple of 1e-10, ties to even
FxRound10(v) ==
    LET q  == v.lo \div 100
        r  == v.lo % 100
        up == r > 50 \/ (r = 50 /\ q % 2 = 1)
    IN  FxNorm(v.hi, 100 * (IF up THEN q + 1 ELSE q))

\* abs(total - 1.0) < 1e-6
SumsToOne(ws) == FxLt(FxAbs(FxSub(FxSum(ws), FxOne)), FxTol)

-----------------------------------------------------------------------------
(* Grid generator                                                          *)

STRATEGY_KEYS ==
    <<"trend", "momentum", "swing", "scalping", "day", "price_action",
      "rsi", "bollinger", "macd">>

DefaultStepCenti == 10       \* step = 0.1
\* two keys perturbed instead of three
TopK_two == 3 - 1

TopK == 3                    \* top_k=3

\* int(round(1.0 / step)) for step = c hundredths, 0 < c <= 100:
\* round() rounds to the nearest integer, ties to even
RoundedUnits(c) ==
    LET q == 100 \div c
        r == 100 % c
    IN  IF 2 * r > c \/ (2 * r = c /\ q % 2 = 1) THEN q + 1 ELSE q

\* the step _generate_weight_grid works with: the configured one, or 0.1 when
\* it is not a number or lies outside (0, 1]
EffectiveStepCenti(step) ==
    IF ~step.num THEN DefaultStepCenti
    ELSE IF step.c <= 0 \/ step.c > 100 THEN DefaultStepCenti
    ELSE step.c

RECURSIVE _generate_combinations(_, _)
\* the recursion with "for i in range(remaining_units)": the largest share of
\* each key is left out
_generate_combinations_short(remaining_units, num_remaining) ==
    IF num_remaining = 1
    THEN << <<remaining_units>> >>
    ELSE Flatten([j \in 1..remaining_units |->
            LET i   == j - 1
                sub == _generate_combinations(remaining_units - i, num_remaining - 1)
            IN  [k \in 1..Len(sub) |-> <<i>> \o sub[k]]])

\* list of the lists of num_remaining non-negative integers that sum to
\* remaining_units, in the order the recursion appends them
_generate_combinations(remaining_units, num_remaining) ==
    IF num_remaining = 1
    THEN << <<remaining_units>> >>
    ELSE Flatten([j \in 1..(remaining_units + 1) |->
            LET i   == j - 1
                sub == _generate_combinations(remaining_units - i, num_remaining - 1)
            IN  [k \in 1..Len(sub) |-> <<i>> \o sub[k]]])

\* a grid whose weights are units * step instead of units / total units
_generate_weight_grid_scaled(step, keys) ==
    LET c     == EffectiveStepCenti(step)
        units == RoundedUnits(c)
        raw_combinations == _generate_combinations(units, Len(keys))
    IN  [n \in 1..Len(raw_combinations) |->
            [k \in 1..Len(keys) |-> FxCenti(raw_combinations[n][k] * c)]]

\* candidates of stage 1: one weight list (aligned with keys) per combination
_generate_weight_grid(step, keys) ==
    LET units == RoundedUnits(EffectiveStepCenti(step))
        raw_combinations == _generate_combinations(units, Len(keys))
    IN  [n \in 1..Len(raw_combinations) |->
            [k \in 1..Len(keys) |-> FxRatio(raw_combinations[n][k], units)]]

\* key a comes before key b in sorted(base_weights.items(), key=value,
\* reverse=True): larger weight first, equal weights in dict order
RanksBefore(w, a, b) == FxLt(w[b], w[a]) \/ (w[a] = w[b] /\ a < b)

\* position (1-based) of key a in that sorted list
RankOf(w, a) == 1 + Cardinality({b \in DOMAIN w : b # a /\ RanksBefore(w, b, a)})

\* top_k_keys: the first top_k keys of the sorted list, in sorted order
TopKKeys(w, top_k) ==
    [r \in 1..Min2(top_k, Len(w)) |-> CHOOSE a \in DOMAIN w : RankOf(w, a) = r]

InUnit(v) == ~FxLt(v, FxZero) /\ ~FxLt(FxOne, v)      \* not (v < 0 or v > 1)

\* the vector with step moved between key_i and key_j (delta_i added to key_i)
Transfer(w, key_i, key_j, delta_i) ==
    [w EXCEPT ![key_i] = FxAdd(w[key_i], delta_i),
              ![key_j] = FxSub(w[key_j], delta_i)]

\* neighbors of base_weights: for key_i, delta_i, key_j in loop order, the
\* transfers that keep both weights in [0,1] and the total at 1.0, rounded
_generate_neighbor_weights(base_weights, step, top_k) ==
    LET top_k_keys == TopKKeys(base_weights, top_k)
        K          == Len(top_k_keys)
        deltas     == <<FxNeg(step), step>>
        \* the loop nest, flattened: (key_i, delta_i, key_j)
        tries      == Flatten([a \in 1..K |-> Flatten([d \in 1..2 |->
                          [b \in 1..K |-> <<top_k_keys[a], deltas[d], top_k_keys[b]>>]])])
        Kept(t)    == /\ InUnit(FxAdd(base_weights[t[1]], t[2]))
                      /\ t[1] # t[3]
                      /\ InUnit(FxSub(base_weights[t[3]], t[2]))
                      /\ SumsToOne(Transfer(base_weights, t[1], t[3], t[2]))
        kept       == SelectSeq(tries, Kept)
    IN  [n \in 1..Len(kept) |->
            LET new_weights == Transfer(base_weights, kept[n][1], kept[n][3], kept[n][2])
            IN  [k \in DOMAIN new_weights |-> FxRound10(new_weights[k])]]

-----------------------------------------------------------------------------
(* Specification of the grid generator: configured steps and key lists are *)
(* drawn from bounded sets, then the two generators are applied.           *)

MaxKeys == 4                 \* key lists are the first 1..MaxKeys strategy keys

\* configured coarse steps: valid ones (0.1 .. 1.0, with the rounding ties 0.4
\* and 0.15), zero, negative, above 1 and not a number
CoarseStepInputs ==
    {[num |-> TRUE, c |-> c] : c \in {-20, 0, 130, 10, 15, 20, 30, 40, 50, 70, 100}}
    \cup {[num |-> FALSE, c |-> 0]}

\* configured fine steps: 0.05, 0.25, 2.0, 0.333333333333, and two steps
\* below the unit of round(v, 10) (5e-11, a rounding tie, and 1.5e-10)
FineStepInputs ==
    {FxCenti(5), FxCenti(25), FxCenti(200), [hi |-> 333333, lo |-> 333333],
     [hi |-> 0, lo |-> 50], [hi |-> 0, lo |-> 150]}

GridIdle ==
    /\ gPc = "off"
    /\ strategyKeys = <<>>
    /\ coarseStep = [num |-> TRUE, c |-> 0]
    /\ fineStep = FxZero
    /\ candidates = <<>>
    /\ baseWeights = <<>>
    /\ neighbors = <<>>

GridInit ==
    /\ gPc = "config"
    /\ strategyKeys \in {SubSeq(STRATEGY_KEYS, 1, n) : n \in 1..MaxKeys}
    /\ coarseStep \in CoarseStepInputs
    /\ fineStep \in FineStepInputs
    /\ candidates = <<>>
    /\ baseWeights = <<>>
    /\ neighbors = <<>>

\* candidates = _generate_weight_grid(coarse_step)
GenerateWeightGrid ==
    /\ gPc = "config"
    /\ candidates' = _generate_weight_grid(coarseStep, strategyKeys)
    /\ gPc' = "coarse"
    /\ UNCHANGED <<strategyKeys, coarseStep, fineStep, baseWeights, neighbors>>
    /\ UNCHANGED nonGridVars

\* neighbors = _generate_neighbor_weights(params["weights"], fine_step) for the
\* weights of one stage-1 result; the state keeps the base vector and its
\* neighbors, the stage-1 list it was taken from is dropped
GenerateNeighborWeights ==
    /\ gPc = "coarse"
    /\ \E n \in 1..Len(candidates) :
        /\ baseWeights' = candidates[n]
        /\ neighbors' = _generate_neighbor_weights(candidates[n], fineStep, TopK)
    /\ candidates' = <<>>
    /\ gPc' = "fine"
    /\ UNCHANGED <<strategyKeys, coarseStep, fineStep>>
    /\ UNCHANGED nonGridVars

GridNext == GenerateWeightGrid \/ GenerateNeighborWeights

-----------------------------------------------------------------------------
(* The nine strategies and ensemble_signal (bot/strategies/signal.py).     *)
(* Prices are whole KRW amounts; means and standard deviations are         *)
(* compared through the integer sums they are made of, so that every       *)
(* comparison of the source is decided exactly.                            *)

LastN(s, n) == SubSeq(s, Len(s) - n + 1, Len(s))

SumSq(s) == SumSeq([k \in DOMAIN s |-> s[k] * s[k]])

\* n^2 times the population variance of s (np.std(s)^2 * n^2), computed on
\* the deviations from the first element
VarN2(s) ==
    LET d == [k \in DOMAIN s |-> s[k] - s[1]]
    IN  Len(s) * SumSq(d) - SumSeq(d) * SumSeq(d)

\* a trend vote with the comparison reversed: +1 on a fall
_sig_trend_reversed(prices) ==
    IF Len(prices) < 2 THEN 0
    ELSE IF prices[Len(prices)] < prices[Len(prices) - 1] THEN 1 ELSE -1

_sig_trend(prices) ==
    IF Len(prices) < 2 THEN 0
    ELSE IF prices[Len(prices)] > prices[Len(prices) - 1] THEN 1 ELSE -1

_sig_momentum(prices, period) ==
    IF Len(prices) <= period THEN 0
    ELSE IF prices[Len(prices)] - prices[Len(prices) - period] > 0 THEN 1 ELSE -1

_sig_swing(prices, short_period, long_period) ==
    IF Len(prices) < Max2(short_period, long_period) THEN 0
    ELSE IF long_period * SumSeq(LastN(prices, short_period))
                > short_period * SumSeq(LastN(prices, long_period))
         THEN 1 ELSE -1

_sig_scalping(prices, lookback) ==
    IF Len(prices) < lookback + 1 THEN 0
    ELSE LET n           == Len(prices)
             recent      == SubSeq(prices, n - lookback, n - 1)
             v           == VarN2(recent)
             last_change == prices[n] - prices[n - 1]
             \* |last_change| > 0.5 * volatility
             beyond      == 4 * last_change * last_change * lookback * lookback > v
         IN  IF v = 0 THEN 0
             ELSE IF last_change > 0 /\ beyond THEN 1
             ELSE IF last_change < 0 /\ beyond THEN -1
             ELSE 0

_sig_day(prices, lookback) ==
    IF Len(prices) < lookback THEN 0
    ELSE LET n      == Len(prices)
             recent == LastN(prices, lookback)
             v      == VarN2(recent)
             s      == SumSeq(recent)
         IN  IF s = 0 THEN 0
             \* volatility / mean_price < 0.02
             ELSE IF v <= (s * s - 1) \div 2500
                  THEN (IF prices[n] > prices[n - 1] THEN 1 ELSE -1)
             \* volatility / mean_price > 0.05
             ELSE IF v > (s * s) \div 400
                  THEN (IF lookback * prices[n] > s THEN -1 ELSE 1)
             ELSE 0

SeqMax(s) == CHOOSE x \in Range(s) : \A y \in Range(s) : y <= x
SeqMin(s) == CHOOSE x \in Range(s) : \A y \in Range(s) : x <= y

_sig_price_action(prices) ==
    IF Len(prices) < 3 THEN 0
    ELSE LET n    == Len(prices)
             prev == SubSeq(prices, 1, n - 1)
         IN  IF prices[n] > SeqMax(prev) THEN 1
             ELSE IF prices[n] < SeqMin(prev) THEN -1
             ELSE 0

_sig_rsi(prices, period) ==
    IF Len(prices) <= period THEN 0
    ELSE LET n      == Len(prices)
             change == [k \in 1..(n - 1) |-> prices[k + 1] - prices[k]]
             gains  == [k \in 1..(n - 1) |-> IF change[k] > 0 THEN change[k] ELSE 0]
             losses == [k \in 1..(n - 1) |-> IF change[k] > 0 THEN 0 ELSE -change[k]]
             g      == SumSeq(LastN(gains, period))
             l      == SumSeq(LastN(losses, period))
         IN  IF Len(gains) < period THEN 0
             \* avg_loss == 0: rsi = 100
             ELSE IF l = 0 THEN -1
             \* rsi = 100 - 100 / (1 + g / l) = 100 * g / (g + l)
             ELSE IF 10 * g < 3 * (g + l) THEN 1
             ELSE IF 10 * g > 7 * (g + l) THEN -1
             ELSE 0

\* bands over the prices there are when there are fewer than period
_sig_bollinger_partial(prices, period, num_std) ==
    LET n      == Len(prices)
        have   == Min2(period, n)
        recent == LastN(prices, have)
        v      == VarN2(recent)
        below  == SumSeq(recent) - have * prices[n]
    IN  IF below >= 0 /\ below * below >= num_std * num_std * v THEN 1
        ELSE IF below <= 0 /\ below * below >= num_std * num_std * v THEN -1
        ELSE 0

_sig_bollinger(prices, period, num_std) ==
    IF Len(prices) < period THEN 0
    ELSE LET n      == Len(prices)
             recent == LastN(prices, period)
             v      == VarN2(recent)
             \* period * (middle - last_price)
             below  == SumSeq(recent) - period * prices[n]
         IN  IF below >= 0 /\ below * below >= num_std * num_std * v THEN 1
             ELSE IF below <= 0 /\ below * below >= num_std * num_std * v THEN -1
             ELSE 0

\* exponential moving averages are kept in thousandths of a KRW
EmaScale == 1000

\* a / b rounded to the nearest integer, for b > 0
DivRound(a, b) == (a \div b) + ((2 * (a % b) + b) \div (2 * b))

RECURSIVE EmaFrom(_, _, _, _)
\* the loop of _ema from data[k] on (1-based), ema being ema_values[-1];
\* "next = next" has the value computed before the loop goes on
EmaFrom(data, k, period, ema) ==
    IF k > Len(data) THEN ema
    ELSE LET next == DivRound((data[k] * EmaScale - ema) * 2, period + 1) + ema
         IN  IF next = next THEN EmaFrom(data, k + 1, period, next) ELSE ema

_ema(data, period) ==
    IF Len(data) < period THEN DivRound(SumSeq(data) * EmaScale, Len(data))
    ELSE EmaFrom(data, period + 1, period,
                 DivRound(SumSeq(SubSeq(data, 1, period)) * EmaScale, period))

MacdAt(prices, k, fast, slow) ==
    _ema(SubSeq(prices, 1, k), fast) - _ema(SubSeq(prices, 1, k), slow)

_sig_macd(prices, fast, slow, signal) ==
    IF Len(prices) < slow + signal THEN 0
    ELSE IF Len(prices) < slow + signal + 10 THEN 0
    ELSE LET n            == Len(prices)
             macd_line    == MacdAt(prices, n, fast, slow)
             \* i in range(n - slow - signal, n) with i >= slow, 0-based
             first        == Max2(n - slow - signal, slow) + 1
             macd_history == [k \in 1..(n - first + 1) |->
                                 MacdAt(prices, first + k - 1, fast, slow)]
             recent       == LastN(macd_history, signal)
         IN  IF Len(macd_history) < signal THEN 0
             ELSE IF signal * macd_line > SumSeq(recent) THEN 1
             ELSE IF signal * macd_line < SumSeq(recent) THEN -1
             ELSE 0

\* the votes of the nine strategies, in the order of STRATEGY_KEYS
Signals(prices) ==
    [trend        |-> _sig_trend(prices),
     momentum     |-> _sig_momentum(prices, 10),
     swing        |-> _sig_swing(prices, 5, 20),
     scalping     |-> _sig_scalping(prices, 10),
     day          |-> _sig_day(prices, 20),
     price_action |-> _sig_price_action(prices),
     rsi          |-> _sig_rsi(prices, 14),
     bollinger    |-> _sig_bollinger(prices, 20, 2),
     macd         |-> _sig_macd(prices, 12, 26, 9)]

FxTimesVote(w, vote) == IF vote = 1 THEN w ELSE IF vote = -1 THEN FxNeg(w) ELSE FxZero

\* d.get(k, default)
DictGet(d, k, default) == IF k \in DOMAIN d THEN d[k] ELSE default

RECURSIVE WeightedSum(_, _, _)
\* sum(weights.get(k, 0) * signals.get(k, 0) for k in keys)
WeightedSum(ws, signals, keys) ==
    IF keys = {} THEN FxZero
    ELSE LET k == CHOOSE x \in keys : TRUE
         IN  FxAdd(FxTimesVote(DictGet(ws, k, FxZero), DictGet(signals, k, 0)),
                   WeightedSum(ws, signals, keys \ {k}))

\* a sum over the strategy table in which a strategy without a weight counts
\* with the weight 1.0
ensemble_signal_default_weight(prices, ws) ==
    WeightedSum([k \in Range(STRATEGY_KEYS) |-> DictGet(ws, k, FxOne)], Signals(prices),
                Range(STRATEGY_KEYS))

\* ws is a dict (a function) from keys to fixed point weights
ensemble_signal(prices, ws) == WeightedSum(ws, Signals(prices), DOMAIN ws)

-----------------------------------------------------------------------------
(* Amounts of the backtest (_backtest, bot/optimizer.py).                  *)
(* KRW amounts (cash, equity, order prices, fees) are integers in units of *)
(* 1e-4 KRW, coin quantities are integers in units of 1e-8 coin (the       *)
(* quantum the source floors volumes to), rates (fees, aggressiveness) are *)
(* in units of 1e-4 and returns in units of 1e-6. Candle prices are whole  *)
(* KRW amounts. A float operation that rounds in the source rounds here to *)
(* the unit of its result.                                                 *)

MoneyScale == 10000          \* units of 1e-4 KRW per KRW
RateScale  == 10000          \* units of 1e-4 per 1.0
RetScale   == 1000000        \* units of 1e-6 per 1.0

Sign(x) == IF x > 0 THEN 1 ELSE IF x < 0 THEN -1 ELSE 0
Abs(x)  == IF x < 0 THEN -x ELSE x

RECURSIVE Pow10(_)
Pow10(k) == IF k = 0 THEN 1 ELSE 10 * Pow10(k - 1)

\* the next decimal digit of r / d for 0 <= r < d: floor(10 * r / d), without
\* forming 10 * r
DivDigit(r, d) ==
    CHOOSE t \in 0..9 :
        /\ t * (d \div 10) + ((t * (d % 10) + 9) \div 10) <= r
        /\ t < 9 => (t + 1) * (d \div 10) + (((t + 1) * (d % 10) + 9) \div 10) > r

RECURSIVE LongDiv(_, _, _)
\* the first k decimal digits of r / d as an integer, for 0 <= r < d
LongDiv(r, k, d) ==
    IF k = 0 THEN 0
    ELSE LET t == DivDigit(r, d)
         IN  t * Pow10(k - 1)
             + LongDiv(10 * (r - t * (d \div 10)) - t * (d % 10), k - 1, d)

\* floor(a * 10^k / d) for a >= 0 and d > 0, by long division
MulPow10Div(a, k, d) == (a \div d) * Pow10(k) + LongDiv(a % d, k, d)

\* (a / b) as a rate in units of 1e-6, for b > 0; truncated towards zero
RatioPpm(a, b) == Sign(a) * MulPow10Div(Abs(a), 6, b)

\* price * quantity: a price in 1e-4 KRW times a quantity in 1e-8 coin, in
\* 1e-4 KRW, rounded to the nearest unit
PriceTimesQty(price, qty) ==
    LET a1 == price \div 10000
        a0 == price % 10000
        b1 == qty \div 10000
        b0 == qty % 10000
        m  == a1 * b0 + a0 * b1
    IN  a1 * b1 + (m \div 10000) + (((m % 10000) * 10000 + a0 * b0 + 50000000) \div 100000000)

\* amount * rate, amount in 1e-4 KRW, rate in 1e-4
TimesRate(amount, rate) ==
    (amount \div RateScale) * rate + DivRound((amount % RateScale) * rate, RateScale)

\* amount * (1 + rate)
TimesOnePlus(amount, rate) == amount + TimesRate(amount, rate)


\* _get_tick_size, for a price in 1e-4 KRW; the tick in 1e-4 KRW
_get_tick_size(price) ==
    LET p == price \div MoneyScale
    IN  IF p >= 2000000 THEN 1000 * MoneyScale
        ELSE IF p >= 1000000 THEN 500 * MoneyScale
        ELSE IF p >= 500000 THEN 100 * MoneyScale
        ELSE IF p >= 100000 THEN 50 * MoneyScale
        ELSE IF p >= 10000 THEN 10 * MoneyScale
        ELSE IF p >= 1000 THEN 5 * MoneyScale
        ELSE IF p >= 100 THEN 1 * MoneyScale
        ELSE IF p >= 10 THEN MoneyScale \div 10
        ELSE MoneyScale \div 100

\* the largest sum p + tick from which a double can hold the 1e-12 taken off
\* it: above 2^14 = 16384 neighbouring doubles are 3.6e-12 apart and
\* p + tick - 1e-12 is p + tick again
EpsilonLimit == 16384 * MoneyScale

\* round_price_to_tick: int((p + tick - 1e-12) / tick) * tick for "up",
\* int(p / tick) * tick for "down". 1e-12 is less than one unit of p, and it
\* is lost in the double sum when p + tick exceeds EpsilonLimit. Prices from
\* 100 KRW on (whole ticks); under 100 KRW the ticks 0.1 and 0.01 are not
\* binary fractions and the doubles differ from these decimals.
round_price_to_tick(price, mode) ==
    LET tick == _get_tick_size(price)
        eps  == IF price + tick > EpsilonLimit THEN 0 ELSE 1
    IN  IF mode = "up" THEN ((price + tick - eps) \div tick) * tick
        ELSE (price \div tick) * tick

RECURSIVE IsqrtFrom(_, _, _)
\* the largest r in lo..hi with r * r <= n
IsqrtFrom(n, lo, hi) ==
    IF lo >= hi THEN lo
    ELSE LET mid == (lo + hi + 1) \div 2
         IN  IF mid * mid <= n THEN IsqrtFrom(n, mid, hi) ELSE IsqrtFrom(n, lo, mid - 1)

Isqrt(n) == IsqrtFrom(n, 0, 46340)

RECURSIVE DrawdownFrom(_, _, _, _)
DrawdownFrom(curve, k, peak, max_dd) ==
    IF k > Len(curve) THEN max_dd
    ELSE LET v  == curve[k]
             pk == IF v > peak THEN v ELSE peak
             dd == IF pk > 0 THEN RatioPpm(pk - v, pk) ELSE 0
         IN  DrawdownFrom(curve, k + 1, pk, IF pk > 0 /\ dd > max_dd THEN dd ELSE max_dd)

\* the largest fall from a peak measured against the value fallen to
RECURSIVE TroughDrawdownFrom(_, _, _, _)
TroughDrawdownFrom(curve, k, peak, max_dd) ==
    IF k > Len(curve) THEN max_dd
    ELSE LET v  == curve[k]
             pk == IF v > peak THEN v ELSE peak
             dd == IF v > 0 THEN RatioPpm(pk - v, v) ELSE 0
         IN  TroughDrawdownFrom(curve, k + 1, pk, IF dd > max_dd THEN dd ELSE max_dd)

_max_drawdown_on_trough(curve) ==
    IF curve = <<>> THEN 0
    ELSE TroughDrawdownFrom(curve, 1, curve[1], 0)

\* _max_drawdown, in units of 1e-6; peak starts at -inf
_max_drawdown(curve) ==
    IF curve = <<>> THEN 0
    ELSE DrawdownFrom(curve, 1, curve[1], 0)

SharpeScale == 100           \* sharpe is kept in hundredths
SharpeStopped == -999 * SharpeScale
SqrtPeriodsPerYear == 725    \* math.sqrt(365 * 24 * 60) = 724.98...

\* _sharpe_ratio, in hundredths. Whether std is 0 is decided on the returns
\* in units of 1e-6; the value mean / std is computed on the returns in
\* units of 1e-3:  mean / std = S * sqrt(n - 1) / sqrt(sum((n * r - S)^2))
_sharpe_ratio(rets) ==
    LET n  == Len(rets)
        c  == [k \in DOMAIN rets |-> rets[k] \div 1000]
        s  == SumSeq(c)
        q  == SumSq([k \in DOMAIN rets |-> n * c[k] - s])
        a  == Isqrt((n - 1) * SharpeScale * SharpeScale)
        b  == Max2(1, Isqrt(q))
    IN  IF n = 0 THEN 0
        ELSE IF n = 1 \/ (\A k \in DOMAIN rets : rets[k] = rets[1]) THEN 0
        ELSE (SqrtPeriodsPerYear * s * a) \div b

-----------------------------------------------------------------------------
(* _backtest (bot/optimizer.py): one action per iteration of its loop and  *)
(* one for the code after the loop. Indices are those of the source        *)
(* (0-based): candle k of the source is candles[k + 1] here.               *)

\* no minimum order amount
MinOrderKrw_none == 0 * MoneyScale

MinOrderKrw_low == 4000 * MoneyScale \* a gate of 4000.0
MinOrderKrw == 5000 * MoneyScale     \* min_order_krw = 5000.0
MinWindow == 3                       \* max(3, ...)

Candle(k) == candles[k + 1]

\* window = max(3, min(int(window), len(candles)))
EffectiveWindow(win, len) == Max2(MinWindow, Min2(win, len))

\* a slice that starts one candle later: it ends with the close of candle i + 1
RecentIndices_ahead(i, win) == (i + 2 - win)..(i + 1)

\* a slice one close short: candles[i + 2 - window : i + 1]
RecentIndices_short(i, win) == (i + 2 - win)..i

\* the indices of candles[i + 1 - window : i + 1]
RecentIndices(i, win) == (i + 1 - win)..i

\* recent_closes = [c["close"] for c in candles[i + 1 - window : i + 1]]
RecentCloses(cs, i, win) ==
    LET first == CHOOSE k \in RecentIndices(i, win) : \A j \in RecentIndices(i, win) : k <= j
    IN  [k \in 1..Cardinality(RecentIndices(i, win)) |-> cs[first + k].close]

\* score = float(ensemble_signal(recent_closes, weights))
ScoreAt(cs, i, ws, win) == ensemble_signal(RecentCloses(cs, i, win), ws)

\* exec_price = next_open = candles[i + 1]["open"], in 1e-4 KRW
ExecPrice(cs, i) == cs[i + 2].open * MoneyScale

\* target_price of a BUY: round_price_to_tick(exec_price * (1.0 + aggressiveness), "up")
BuyTargetPrice(exec_price, aggr) ==
    round_price_to_tick(TimesOnePlus(exec_price, aggr), "up")

\* target_price of a SELL: round_price_to_tick(exec_price * (1.0 - aggressiveness), "down")
SellTargetPrice(exec_price, aggr) ==
    round_price_to_tick(TimesOnePlus(exec_price, -aggr), "down")

\* volume = floor(cash_krw / effective_unit_cost * 1e8) / 1e8, in 1e-8 coin
BuyVolume(cash, target_price, fee, buffer) ==
    LET effective_unit_cost == TimesOnePlus(target_price, fee + buffer)
    IN  IF effective_unit_cost > 0 THEN MulPow10Div(cash, 8, effective_unit_cost) ELSE 0

\* an early-stop test that skips the iteration early_stop_candles itself
EarlyStopDue_late(i, equity, cash0, stop_candles, stop_threshold) ==
    /\ i > stop_candles
    /\ equity <= (cash0 \div 100) * (100 + stop_threshold)

\* an early-stop test made at every step
EarlyStopDue_anystep(i, equity, cash0, stop_candles, stop_threshold) ==
    equity <= (cash0 \div 100) * (100 + stop_threshold)

\* if i >= early_stop_candles: current_return = equity / initial_cash - 1.0;
\* if current_return <= early_stop_threshold (the threshold in percent)
EarlyStopDue(i, equity, cash0, stop_candles, stop_threshold) ==
    /\ i >= stop_candles
    /\ equity <= (cash0 \div 100) * (100 + stop_threshold)

NoStep == [i |-> -1, kind |-> "none"]
NoResult == <<>>


\* ---- inputs of the model-checked backtests ----

MaxCandles == 6              \* candle series of 2..MaxCandles candles

PriceLevels == {2000, 4000}  \* closes of the free-form series, in KRW
LongCandles == 22            \* length of the series long enough for a window of 20

\* a rise to 4000 KRW followed by a fall over two candles to 2000 KRW
RiseAndFall == <<2000, 2000, 4000, 2600, 2000, 2000>>

\* closes: every series over PriceLevels, ramps of 200 KRW per candle, a rise
\* and fall, and long series: flat, and rising by 10 KRW per candle
CloseSeries ==
    UNION {[1..n -> PriceLevels] : n \in 2..MaxCandles}
    \cup {[k \in 1..n |-> 2000 + 200 * k] : n \in 2..MaxCandles}
    \cup {[k \in 1..n |-> 4000 - 200 * k] : n \in 2..MaxCandles}
    \cup {RiseAndFall}
    \cup {[k \in 1..LongCandles |-> 2000], [k \in 1..LongCandles |-> 2000 + 10 * k]}

\* a candle opens at the previous close ("continuous"), or where it closes
\* ("gap")
MakeCandles(closes, mode) ==
    [k \in DOMAIN closes |->
        [open  |-> IF mode = "gap" \/ k = 1 THEN closes[k] ELSE closes[k - 1],
         close |-> closes[k]]]

CandleInputs == {MakeCandles(c, mode) : c \in CloseSeries, mode \in {"continuous", "gap"}}

\* a weight vector over all strategy keys, from the non-zero entries
WeightsOf(part) ==
    [k \in Range(STRATEGY_KEYS) |-> IF k \in DOMAIN part THEN part[k] ELSE FxZero]

WeightInputs ==
    {WeightsOf([trend |-> FxOne]),
     WeightsOf([trend |-> FxCenti(50), price_action |-> FxCenti(50)]),
     WeightsOf([momentum |-> FxCenti(50), bollinger |-> FxCenti(50)]),
     WeightsOf([bollinger |-> FxOne])}

BtIdle ==
    /\ btPc = "off"
    /\ candles = <<>>
    /\ weights = <<>>
    /\ threshold = FxZero
    /\ initial_cash = 0
    /\ fee_rate = 0
    /\ fee_buffer = 0
    /\ aggressiveness = 0
    /\ window = 0
    /\ early_stop_threshold = 0
    /\ early_stop_candles = 0
    /\ iStep = 0
    /\ cash_krw = 0
    /\ coin_qty = 0
    /\ equity_curve = <<>>
    /\ returns = <<>>
    /\ last_equity = 0
    /\ win_trades = 0
    /\ total_trades = 0
    /\ trade_log = <<>>
    /\ btResult = NoResult
    /\ lastStep = NoStep
    /\ btRun = 0
    /\ btFirstResult = NoResult

\* the state of _backtest when its loop is entered (lines 388-404); fees and
\* aggressiveness are the defaults of bot/core/config.py
BtInit ==
    /\ btPc = "loop"
    /\ candles \in CandleInputs
    /\ weights \in WeightInputs
    /\ threshold \in {FxCenti(20), FxCenti(50), FxCenti(60)}
    /\ initial_cash \in {5000 * MoneyScale, 10000 * MoneyScale}
    /\ fee_rate = 5
    /\ fee_buffer = 5
    /\ aggressiveness = 15
    /\ window \in {3, 20, 200}
    /\ early_stop_threshold = -30
    /\ early_stop_candles \in {4, 50}
    /\ iStep = 0
    /\ cash_krw = initial_cash
    /\ coin_qty = 0
    /\ equity_curve = <<>>
    /\ returns = <<>>
    /\ last_equity = initial_cash
    /\ win_trades = 0
    /\ total_trades = 0
    /\ trade_log = <<>>
    /\ btResult = NoResult
    /\ lastStep = NoStep
    /\ btRun = 0
    /\ btFirstResult = NoResult

\* a sell executed whatever is held
SellExecutes_flat(qty, proceed) == TRUE

\* "if coin_qty > 0" and "if proceed > min_order_krw" of the sell branch
SellExecutes(qty, proceed) == qty > 0 /\ proceed > MinOrderKrw

\* a win marked at every sell
WinMarked_always(after_equity, equity) == TRUE

\* "if after_equity > equity" of the sell branch
WinMarked(after_equity, equity) == after_equity > equity

\* one iteration of "for i in range(len(candles) - 1)"
BacktestStep ==
    /\ btPc = "loop"
    /\ iStep < Len(candles) - 1
    /\ LET i          == iStep
           win        == EffectiveWindow(window, Len(candles))
           next_close == Candle(i + 1).close * MoneyScale
           equity     == cash_krw + PriceTimesQty(next_close, coin_qty)
           rets       == IF i > 0 /\ last_equity > 0
                         THEN Append(returns, RatioPpm(equity - last_equity, last_equity))
                         ELSE returns
           score      == ScoreAt(candles, i, weights, win)
           exec_price == ExecPrice(candles, i)
           buy_price  == BuyTargetPrice(exec_price, aggressiveness)
           volume     == BuyVolume(cash_krw, buy_price, fee_rate, fee_buffer)
           spend      == PriceTimesQty(buy_price, volume)
           sell_price == SellTargetPrice(exec_price, aggressiveness)
           proceed    == PriceTimesQty(sell_price, coin_qty)
           seen       == [i |-> i, equity |-> equity, cash |-> cash_krw, coin |-> coin_qty]
       IN  /\ equity_curve' = Append(equity_curve, equity)
           /\ returns' = rets
           /\ last_equity' = equity
           /\ IF EarlyStopDue(i, equity, initial_cash, early_stop_candles, early_stop_threshold)
              THEN \* the early return
                   /\ btResult' = [final_equity |-> equity,
                                   total_return |-> RatioPpm(equity - initial_cash, initial_cash),
                                   max_drawdown |-> RetScale,
                                   sharpe       |-> SharpeStopped,
                                   win_rate     |-> 0,
                                   num_trades   |-> total_trades]
                   /\ btPc' = "returned"
                   /\ lastStep' = seen @@ [kind |-> "early_stop"]
                   /\ UNCHANGED <<iStep, cash_krw, coin_qty, win_trades, total_trades, trade_log>>
              ELSE /\ btPc' = "loop"
                   /\ iStep' = i + 1
                   /\ btResult' = btResult
                   /\ IF i + 1 < Max2(MinWindow, win)
                      THEN \* continue
                           /\ lastStep' = seen @@ [kind |-> "warmup"]
                           /\ UNCHANGED <<cash_krw, coin_qty, win_trades, total_trades, trade_log>>
                      ELSE IF ~FxLt(score, threshold)
                      THEN \* BUY
                           IF cash_krw > MinOrderKrw /\ volume > 0 /\ spend > MinOrderKrw
                           THEN /\ cash_krw' = cash_krw - (spend + TimesRate(spend, fee_rate))
                                /\ coin_qty' = coin_qty + volume
                                /\ total_trades' = total_trades + 1
                                /\ trade_log' = Append(trade_log, "buy")
                                /\ win_trades' = win_trades
                                /\ lastStep' = seen @@ [kind |-> "buy", score |-> score,
                                                        target_price |-> buy_price,
                                                        volume |-> volume, amount |-> spend,
                                                        fee |-> TimesRate(spend, fee_rate)]
                           ELSE /\ lastStep' = seen @@ [kind |-> "no_buy", score |-> score]
                                /\ UNCHANGED <<cash_krw, coin_qty, win_trades, total_trades, trade_log>>
                      ELSE IF ~FxLt(FxNeg(threshold), score)
                      THEN \* SELL
                           IF SellExecutes(coin_qty, proceed)
                           THEN /\ cash_krw' = cash_krw + (proceed - TimesRate(proceed, fee_rate))
                                /\ win_trades' = IF WinMarked(cash_krw', equity) THEN win_trades + 1
                                                 ELSE win_trades
                                /\ coin_qty' = 0
                                /\ total_trades' = total_trades + 1
                                /\ trade_log' = Append(trade_log, "sell")
                                /\ lastStep' = seen @@ [kind |-> "sell", score |-> score,
                                                        target_price |-> sell_price,
                                                        volume |-> coin_qty, amount |-> proceed,
                                                        fee |-> TimesRate(proceed, fee_rate)]
                           ELSE /\ lastStep' = seen @@ [kind |-> "no_sell", score |-> score]
                                /\ UNCHANGED <<cash_krw, coin_qty, win_trades, total_trades, trade_log>>
                      ELSE /\ lastStep' = seen @@ [kind |-> "hold", score |-> score]
                           /\ UNCHANGED <<cash_krw, coin_qty, win_trades, total_trades, trade_log>>
    /\ UNCHANGED <<btInputs, btRun, btFirstResult>>
    /\ UNCHANGED nonBtVars

\* the code after the loop: final_equity, the metrics and the return
BacktestFinish ==
    /\ btPc = "loop"
    /\ iStep >= Len(candles) - 1
    /\ LET final_equity == cash_krw
                           + PriceTimesQty(candles[Len(candles)].close * MoneyScale, coin_qty)
       IN  btResult' = [final_equity |-> final_equity,
                        total_return |-> RatioPpm(final_equity - initial_cash, initial_cash),
                        max_drawdown |-> _max_drawdown(equity_curve),
                        sharpe       |-> _sharpe_ratio(returns),
                        win_rate     |-> IF total_trades > 0
                                         THEN RatioPpm(win_trades, total_trades) ELSE 0,
                        num_trades   |-> total_trades]
    /\ btPc' = "returned"
    /\ UNCHANGED <<iStep, cash_krw, coin_qty, equity_curve, returns, last_equity, win_trades,
                   total_trades, trade_log, lastStep>>
    /\ UNCHANGED <<btInputs, btRun, btFirstResult>>
    /\ UNCHANGED nonBtVars

BtNext ==
    \/ BacktestStep
    \/ BacktestFinish

\* ---- one call of _backtest as a value: its arguments a (with the two
\* settings it reads) and its locals l, for the calls that run side by side
\* in the worker threads of a stage ----

\* the locals of _backtest when its loop is entered (lines 388-404)
EntryLocals(a) ==
    [pc |-> "loop", i |-> 0, cash_krw |-> a.initial_cash, coin_qty |-> 0,
     equity_curve |-> <<>>, returns |-> <<>>, last_equity |-> a.initial_cash,
     win_trades |-> 0, total_trades |-> 0, result |-> NoResult]

\* the locals after the next piece of the call: one iteration of the loop, or,
\* at the end of the loop, the final metrics and the return
LoopBody(a, l) ==
    IF l.i >= Len(a.candles) - 1
    THEN LET final_equity == l.cash_krw
                  + PriceTimesQty(a.candles[Len(a.candles)].close * MoneyScale, l.coin_qty)
         IN  [l EXCEPT !.pc = "returned",
                       !.result =
                          [final_equity |-> final_equity,
                           total_return |-> RatioPpm(final_equity - a.initial_cash, a.initial_cash),
                           max_drawdown |-> _max_drawdown(l.equity_curve),
                           sharpe       |-> _sharpe_ratio(l.returns),
                           win_rate     |-> IF l.total_trades > 0
                                            THEN RatioPpm(l.win_trades, l.total_trades) ELSE 0,
                           num_trades   |-> l.total_trades]]
    ELSE LET i          == l.i
             win        == EffectiveWindow(a.window, Len(a.candles))
             next_close == a.candles[i + 2].close * MoneyScale
             equity     == l.cash_krw + PriceTimesQty(next_close, l.coin_qty)
             rets       == IF i > 0 /\ l.last_equity > 0
                           THEN Append(l.returns, RatioPpm(equity - l.last_equity, l.last_equity))
                           ELSE l.returns
             seen       == [l EXCEPT !.equity_curve = Append(l.equity_curve, equity),
                                     !.returns = rets,
                                     !.last_equity = equity]
             score      == ScoreAt(a.candles, i, a.weights, win)
             exec_price == ExecPrice(a.candles, i)
             buy_price  == BuyTargetPrice(exec_price, a.aggressiveness)
             volume     == BuyVolume(l.cash_krw, buy_price, a.fee_rate, a.fee_buffer)
             spend      == PriceTimesQty(buy_price, volume)
             sell_price == SellTargetPrice(exec_price, a.aggressiveness)
             proceed    == PriceTimesQty(sell_price, l.coin_qty)
             sold_cash  == l.cash_krw + (proceed - TimesRate(proceed, a.fee_rate))
         IN  IF EarlyStopDue(i, equity, a.initial_cash, a.early_stop_candles,
                             a.early_stop_threshold)
             THEN [seen EXCEPT !.pc = "returned",
                               !.result =
                                  [final_equity |-> equity,
                                   total_return |-> RatioPpm(equity - a.initial_cash,
                                                             a.initial_cash),
                                   max_drawdown |-> RetScale,
                                   sharpe       |-> SharpeStopped,
                                   win_rate     |-> 0,
                                   num_trades   |-> l.total_trades]]
             ELSE IF i + 1 < Max2(MinWindow, win)
             THEN [seen EXCEPT !.i = i + 1]
             ELSE IF ~FxLt(score, a.threshold)
             THEN IF l.cash_krw > MinOrderKrw /\ volume > 0 /\ spend > MinOrderKrw
                  THEN [seen EXCEPT !.i = i + 1,
                                    !.cash_krw = l.cash_krw - (spend + TimesRate(spend, a.fee_rate)),
                                    !.coin_qty = l.coin_qty + volume,
                                    !.total_trades = l.total_trades + 1]
                  ELSE [seen EXCEPT !.i = i + 1]
             ELSE IF ~FxLt(FxNeg(a.threshold), score)
             THEN IF SellExecutes(l.coin_qty, proceed)
                  THEN [seen EXCEPT !.i = i + 1,
                                    !.cash_krw = sold_cash,
                                    !.win_trades = IF WinMarked(sold_cash, equity) THEN l.win_trades + 1
                                                   ELSE l.win_trades,
                                    !.coin_qty = 0,
                                    !.total_trades = l.total_trades + 1]
                  ELSE [seen EXCEPT !.i = i + 1]
             ELSE [seen EXCEPT !.i = i + 1]

RECURSIVE RunFrom(_, _)
RunFrom(a, l) == IF l.pc = "returned" THEN l.result ELSE RunFrom(a, LoopBody(a, l))

\* the metrics dict _backtest(candles, weights, threshold, ...) returns
_backtest(a) == RunFrom(a, EntryLocals(a))

\* the arguments and the locals of the call the backtest variables hold
ArgsNow ==
    [candles |-> candles, weights |-> weights, threshold |-> threshold,
     initial_cash |-> initial_cash, fee_rate |-> fee_rate, fee_buffer |-> fee_buffer,
     aggressiveness |-> aggressiveness, window |-> window,
     early_stop_threshold |-> early_stop_threshold, early_stop_candles |-> early_stop_candles]
LocalsNow ==
    [pc |-> btPc, i |-> iStep, cash_krw |-> cash_krw, coin_qty |-> coin_qty,
     equity_curve |-> equity_curve, returns |-> returns, last_equity |-> last_equity,
     win_trades |-> win_trades, total_trades |-> total_trades, result |-> btResult]

\* each step of the backtest variables is the step LoopBody makes
StepsAgree == [][(BacktestStep \/ BacktestFinish) => LocalsNow' = LoopBody(ArgsNow, LocalsNow)]_vars

\* ---- repeated calls: the arguments and settings stay, the locals of
\* _backtest (lines 388-404) are made anew, and ensemble_signal is called on
\* the closes of the candle list ----

MaxRuns == 2                 \* calls of _backtest with the same arguments

\* the next call of _backtest(candles, weights, ...) after one has returned
BacktestAgain ==
    /\ btPc = "returned"
    /\ btRun + 1 < MaxRuns
    /\ btRun' = btRun + 1
    /\ btFirstResult' = IF btRun = 0 THEN btResult ELSE btFirstResult
    /\ btPc' = "loop"
    /\ iStep' = 0
    /\ cash_krw' = initial_cash
    /\ coin_qty' = 0
    /\ equity_curve' = <<>>
    /\ returns' = <<>>
    /\ last_equity' = initial_cash
    /\ win_trades' = 0
    /\ total_trades' = 0
    /\ trade_log' = <<>>
    /\ btResult' = NoResult
    /\ lastStep' = NoStep
    /\ UNCHANGED btInputs
    /\ UNCHANGED nonBtVars

-----------------------------------------------------------------------------
(* Calls of round_price_to_tick on its own: prices in steps of a quarter   *)
(* KRW from each of TickBases on, which lie shortly under the prices where *)
(* the tick size changes and under EpsilonLimit.                           *)

TickSpan == 120              \* quarter-KRW steps tried from each base
TickBases == {100, 990, 9980, 16370, 99980}      \* in KRW

TickInputs == {(b * 4 + k) * (MoneyScale \div 4) : b \in TickBases, k \in 0..TickSpan}

TkIdle ==
    /\ tkPrice = 0
    /\ tkMode = "off"
    /\ tkRounded = <<>>

TkInit ==
    /\ tkPrice \in TickInputs
    /\ tkMode \in {"up", "down"}
    /\ tkRounded = <<>>

\* round_price_to_tick(price, mode)
RoundPrice ==
    /\ tkPrice > 0
    /\ tkRounded = <<>>
    /\ tkRounded' = <<round_price_to_tick(tkPrice, tkMode)>>
    /\ UNCHANGED <<tkPrice, tkMode>>
    /\ UNCHANGED nonTkVars

\* round_price_to_tick of the price the first call returned
RoundAgain ==
    /\ Len(tkRounded) = 1
    /\ tkRounded' = Append(tkRounded, round_price_to_tick(tkRounded[1], tkMode))
    /\ UNCHANGED <<tkPrice, tkMode>>
    /\ UNCHANGED nonTkVars

TkNext ==
    \/ RoundPrice
    \/ RoundAgain

-----------------------------------------------------------------------------
(* _generate_threshold_candidates: the configured string is a list of      *)
(* characters, a parsed float is the number its digits spell and the       *)
(* number of digits behind the point.                                      *)

MaxCfgChars == 5             \* strings of 0..MaxCfgChars characters
CfgChars == {" ", ",", ".", "5"}

RECURSIVE Strip(_)
\* str.strip(): the blanks at both ends removed
Strip(str) ==
    IF str = <<>> THEN str
    ELSE IF Head(str) = " " THEN Strip(Tail(str))
    ELSE IF str[Len(str)] = " " THEN Strip(SubSeq(str, 1, Len(str) - 1))
    ELSE str

RECURSIVE Split(_, _)
\* str.split(sep): the pieces between the separators, empty pieces included
Split(str, sep) ==
    IF \A k \in DOMAIN str : str[k] # sep THEN <<str>>
    ELSE LET at == CHOOSE k \in DOMAIN str : str[k] = sep /\ \A j \in 1..(k - 1) : str[j] # sep
         IN  <<SubSeq(str, 1, at - 1)>> \o Split(SubSeq(str, at + 1, Len(str)), sep)

\* float(x) accepts x: blanks at the ends, digits with at most one point
IsFloat(x) ==
    LET t == Strip(x)
    IN  /\ \A k \in DOMAIN t : t[k] \in {"5", "."}
        /\ \E k \in DOMAIN t : t[k] = "5"
        /\ Cardinality({k \in DOMAIN t : t[k] = "."}) <= 1

RECURSIVE DigitsValue(_)
DigitsValue(ds) == IF ds = <<>> THEN 0 ELSE 10 * DigitsValue(SubSeq(ds, 1, Len(ds) - 1)) + 5

\* float(x) for an accepted x
FloatOf(x) ==
    LET t      == Strip(x)
        digits == SelectSeq(t, LAMBDA c : c = "5")
        point  == {k \in DOMAIN t : t[k] = "."}
    IN  [digits   |-> DigitsValue(digits),
         decimals |-> IF point = {} THEN 0 ELSE Len(t) - (CHOOSE k \in point : TRUE)]

\* [0.05, 0.1, 0.15, 0.2, 0.25, 0.3, 0.35, 0.4, 0.45, 0.5]
DefaultThresholds == [k \in 1..10 |-> [digits |-> 5 * k, decimals |-> 2]]

\* what _generate_threshold_candidates does for settings.opt_thresholds = raw0:
\* the list it returns, or the ValueError of float()
_generate_threshold_candidates(raw0) ==
    LET raw    == Strip(raw0)
        pieces == SelectSeq(Split(raw, ","), LAMBDA x : Strip(x) # <<>>)
    IN  IF raw # <<>>
        THEN IF \A k \in DOMAIN pieces : IsFloat(pieces[k])
             THEN [kind |-> "list", list |-> [k \in DOMAIN pieces |-> FloatOf(pieces[k])]]
             ELSE [kind |-> "raise", list |-> <<>>]
        ELSE [kind |-> "list", list |-> DefaultThresholds]

NotCalled == [kind |-> "none", list |-> <<>>]

NoBuy == [kind |-> "off"]

BuyIdle ==
    /\ buyArgs = NoBuy
    /\ buyDone = NoBuy

NoResponse == [kind |-> "none"]

ColIdle ==
    /\ cPc = "off"
    /\ cTimeframe = ""
    /\ candleStore = {}
    /\ cResponse = NoResponse
    /\ cCalls = <<>>
    /\ cOutcome = "none"

ChIdle == chTicks = <<>>

NoOrder == [side |-> "none"]

TrIdle ==
    /\ trPc = "off"
    /\ trIn = [kind |-> "none"]
    /\ trOrder = NoOrder
    /\ exOrders = <<>>
    /\ dbOrders = {}
    /\ dbTrades = {}
    /\ txRows = {}
    /\ trFills = <<>>
    /\ trOut = [kind |-> "none"]

LiveIdle == ColIdle /\ ChIdle /\ TrIdle

CfgIdle ==
    /\ cfgRaw = <<>>
    /\ cfgThresholds = [kind |-> "off", list |-> <<>>]

CfgInit ==
    /\ cfgRaw \in UNION {[1..n -> CfgChars] : n \in 0..MaxCfgChars}
    /\ cfgThresholds = NotCalled

\* thresholds = _generate_threshold_candidates()
GenerateThresholdCandidates ==
    /\ cfgThresholds = NotCalled
    /\ cfgThresholds' = _generate_threshold_candidates(cfgRaw)
    /\ UNCHANGED cfgRaw
    /\ UNCHANGED nonCfgVars

CfgNext == GenerateThresholdCandidates

-----------------------------------------------------------------------------
(* Calls of ensemble_signal on its own: price lists of every length up to  *)
(* MaxPrices and weights dicts with missing and unknown keys.              *)

MaxPrices == 46              \* price lists of 1..MaxPrices prices
MaxCalls == 2                \* calls made with the same arguments

\* price lists of length n, in KRW
PriceShapes(n) ==
    {[k \in 1..n |-> 2000],                                   \* flat
     [k \in 1..n |-> 100],
     [k \in 1..n |-> 1000 + 10 * k],                          \* rising
     [k \in 1..n |-> 2000 - 10 * k],                          \* falling
     [k \in 1..n |-> 1500 + 50 * (k % 2)],                    \* zigzag
     [k \in 1..n |-> 1000 + ((37 * k) % 100)],                \* irregular
     [k \in 1..n |-> IF k = n THEN 1600 ELSE 1500],           \* flat, then a jump
     [k \in 1..n |-> IF k = n THEN 1400 ELSE 1500],           \* flat, then a drop
     [k \in 1..n |-> IF 2 * k > n THEN 2000 ELSE 1000]}       \* one step up

PriceInputs == UNION {PriceShapes(n) : n \in 1..MaxPrices}

\* weights dicts: over all strategy keys, over some of them, with a key that
\* is no strategy, and empty
SignalWeightInputs ==
    WeightInputs
    \cup {[trend |-> FxOne],
          [trend |-> FxCenti(50), sentiment |-> FxCenti(50)],
          [k \in Range(STRATEGY_KEYS) |-> FxRatio(1, 9)],
          <<>>}

NoVotes == <<>>

SgIdle ==
    /\ sgCalls = -1
    /\ sgPrices = <<>>
    /\ sgWeights = <<>>
    /\ sgVotes = NoVotes
    /\ sgScore = FxZero
    /\ sgFirstScore = FxZero

SgInit ==
    /\ sgCalls = 0
    /\ sgPrices \in PriceInputs
    /\ sgWeights \in SignalWeightInputs
    /\ sgVotes = NoVotes
    /\ sgScore = FxZero
    /\ sgFirstScore = FxZero

\* a score that adds up over the calls
CallScore_accumulating(prices, ws, calls, last) ==
    IF calls = 0 THEN ensemble_signal(prices, ws) ELSE FxAdd(last, ensemble_signal(prices, ws))

\* the score a call returns: the module keeps nothing between calls
CallScore(prices, ws, calls, last) == ensemble_signal(prices, ws)

\* one call of ensemble_signal(prices, weights)
EnsembleSignal ==
    /\ sgCalls >= 0
    /\ sgCalls < MaxCalls
    /\ sgVotes' = Signals(sgPrices)
    /\ sgScore' = CallScore(sgPrices, sgWeights, sgCalls, sgScore)
    /\ sgFirstScore' = IF sgCalls = 0 THEN sgScore' ELSE sgFirstScore
    /\ sgCalls' = sgCalls + 1
    /\ UNCHANGED <<sgPrices, sgWeights>>
    /\ UNCHANGED nonSgVars

SgNext == EnsembleSignal

-----------------------------------------------------------------------------
(* optimizer_results and save_optimizer_result (bot/db/storage.py).        *)
(* Each call runs in its own connection and transaction at PostgreSQL's    *)
(* default isolation level READ COMMITTED: a statement sees the rows       *)
(* committed when it starts plus the transaction's own changes; a row      *)
(* lock is held until commit or rollback; a statement that waited for a    *)
(* row lock re-evaluates its WHERE clause on the row's newest version and  *)
(* does not see rows committed after it started.                           *)

NumTxns == 2                 \* concurrent save_optimizer_result calls

Txns == 1..NumTxns

\* ids of the committed rows with is_best = TRUE
BestIds(table) == {id \in DOMAIN table : table[id].is_best}

LockedByOther(t, id) == \E u \in Txns \ {t} : id \in txLocks[u]

\* tables the model starts from: empty, one best row, a former best and a best
InitialTables ==
    { <<>>,
      << [is_best |-> TRUE, by |-> 0] >>,
      << [is_best |-> FALSE, by |-> 0], [is_best |-> TRUE, by |-> 0] >> }

DbIdle ==
    /\ rows = <<>>
    /\ txPc = [t \in Txns |-> "off"]
    /\ txMarkBest = [t \in Txns |-> FALSE]
    /\ txTargets = [t \in Txns |-> {}]
    /\ txLocks = [t \in Txns |-> {}]
    /\ txWrites = [t \in Txns |-> {}]
    /\ txBestBefore = [t \in Txns |-> {}]
    /\ txFailedAt = [t \in Txns |-> "none"]

DbInit ==
    /\ rows \in InitialTables
    /\ txPc = [t \in Txns |-> "idle"]
    /\ txMarkBest = [t \in Txns |-> FALSE]
    /\ txTargets = [t \in Txns |-> {}]
    /\ txLocks = [t \in Txns |-> {}]
    /\ txWrites = [t \in Txns |-> {}]
    /\ txBestBefore = [t \in Txns |-> {}]
    /\ txFailedAt = [t \in Txns |-> "none"]

\* save_optimizer_result(params, metrics, mark_best) is called: the connection
\* is opened; with mark_best the first statement is the SELECT, else the INSERT
BeginSave(t) ==
    /\ txPc[t] = "idle"
    /\ \E mark_best \in BOOLEAN :
        /\ txMarkBest' = [txMarkBest EXCEPT ![t] = mark_best]
        /\ txPc' = [txPc EXCEPT ![t] = IF mark_best THEN "select" ELSE "insert"]
    /\ txBestBefore' = [txBestBefore EXCEPT ![t] = BestIds(rows)]
    /\ UNCHANGED <<rows, txTargets, txLocks, txWrites, txFailedAt>>
    /\ UNCHANGED nonDbVars

\* SELECT id FROM optimizer_results WHERE is_best = TRUE FOR UPDATE starts:
\* its snapshot fixes the rows it will lock
SelectForUpdate(t) ==
    /\ txPc[t] = "select"
    /\ txTargets' = [txTargets EXCEPT ![t] = BestIds(rows)]
    /\ txPc' = [txPc EXCEPT ![t] = IF BestIds(rows) = {} THEN "reset" ELSE "select_lock"]
    /\ UNCHANGED <<rows, txMarkBest, txLocks, txWrites, txBestBefore, txFailedAt>>
    /\ UNCHANGED nonDbVars

\* the row lock taken by a locking statement (SELECT ... FOR UPDATE or UPDATE)
\* of transaction t on row id
TakeRowLock(t, id) == [txLocks EXCEPT ![t] = @ \cup {id}]

\* the SELECT locks one of its rows: it waits while another transaction holds
\* the lock, then locks the row if it is still flagged best, else skips it
SelectLockRow(t) ==
    /\ txPc[t] = "select_lock"
    /\ \E id \in txTargets[t] :
        /\ ~LockedByOther(t, id)
        /\ txTargets' = [txTargets EXCEPT ![t] = @ \ {id}]
        /\ txLocks' = IF rows[id].is_best THEN TakeRowLock(t, id) ELSE txLocks
        /\ txPc' = [txPc EXCEPT ![t] = IF txTargets[t] = {id} THEN "reset" ELSE @]
    /\ UNCHANGED <<rows, txMarkBest, txWrites, txBestBefore, txFailedAt>>
    /\ UNCHANGED nonDbVars

\* UPDATE optimizer_results SET is_best = FALSE WHERE is_best = TRUE starts
\* (a new snapshot: rows committed meanwhile are seen)
ResetBest(t) ==
    /\ txPc[t] = "reset"
    /\ txTargets' = [txTargets EXCEPT ![t] = BestIds(rows)]
    /\ txPc' = [txPc EXCEPT ![t] = IF BestIds(rows) = {} THEN "insert" ELSE "reset_lock"]
    /\ UNCHANGED <<rows, txMarkBest, txLocks, txWrites, txBestBefore, txFailedAt>>
    /\ UNCHANGED nonDbVars

\* an UPDATE whose change is visible at once (a connection in autocommit mode)
ResetRowEffect_autocommit(t, id) ==
    /\ rows' = [rows EXCEPT ![id].is_best = FALSE]
    /\ txWrites' = txWrites

\* the effect of the UPDATE on one row it has locked: the new is_best = FALSE
\* is part of the transaction and becomes visible at commit
ResetRowEffect(t, id) ==
    /\ txWrites' = [txWrites EXCEPT ![t] = @ \cup {id}]
    /\ rows' = rows

\* the UPDATE locks and updates one of its rows (waiting for the lock, then
\* re-evaluating is_best = TRUE on the newest version)
ResetLockRow(t) ==
    /\ txPc[t] = "reset_lock"
    /\ \E id \in txTargets[t] :
        /\ ~LockedByOther(t, id)
        /\ txTargets' = [txTargets EXCEPT ![t] = @ \ {id}]
        /\ IF rows[id].is_best
           THEN txLocks' = TakeRowLock(t, id) /\ ResetRowEffect(t, id)
           ELSE UNCHANGED <<txLocks, txWrites, rows>>
        /\ txPc' = [txPc EXCEPT ![t] = IF txTargets[t] = {id} THEN "insert" ELSE @]
    /\ UNCHANGED <<txMarkBest, txBestBefore, txFailedAt>>
    /\ UNCHANGED nonDbVars

\* INSERT INTO optimizer_results (params, metrics, is_best) VALUES (.., mark_best)
\* (the new row is part of the transaction until commit)
InsertResult(t) ==
    /\ txPc[t] = "insert"
    /\ txPc' = [txPc EXCEPT ![t] = "commit"]
    /\ UNCHANGED <<rows, txMarkBest, txTargets, txLocks, txWrites, txBestBefore, txFailedAt>>
    /\ UNCHANGED nonDbVars

\* the table after transaction t commits: its resets applied, its row appended
Committed(t) ==
    [id \in DOMAIN rows |->
        IF id \in txWrites[t] THEN [rows[id] EXCEPT !.is_best = FALSE] ELSE rows[id]]
    \o << [is_best |-> txMarkBest[t], by |-> t] >>

\* connection.commit(): the changes become visible, the row locks are released
CommitSave(t) ==
    /\ txPc[t] = "commit"
    /\ rows' = Committed(t)
    /\ txPc' = [txPc EXCEPT ![t] = "done"]
    /\ txLocks' = [txLocks EXCEPT ![t] = {}]
    /\ txWrites' = [txWrites EXCEPT ![t] = {}]
    /\ UNCHANGED <<txMarkBest, txTargets, txBestBefore, txFailedAt>>
    /\ UNCHANGED nonDbVars

\* a statement (or the commit) raises: the connection's context manager rolls
\* the transaction back and the error propagates to the caller
FailSave(t) ==
    /\ txPc[t] \in {"select", "select_lock", "reset", "reset_lock", "insert", "commit"}
    /\ txFailedAt' = [txFailedAt EXCEPT ![t] = txPc[t]]
    /\ txPc' = [txPc EXCEPT ![t] = "failed"]
    /\ txLocks' = [txLocks EXCEPT ![t] = {}]
    /\ txWrites' = [txWrites EXCEPT ![t] = {}]
    /\ txTargets' = [txTargets EXCEPT ![t] = {}]
    /\ UNCHANGED <<rows, txMarkBest, txBestBefore>>
    /\ UNCHANGED nonDbVars

DbNext ==
    \E t \in Txns :
        \/ BeginSave(t)
        \/ SelectForUpdate(t)
        \/ SelectLockRow(t)
        \/ ResetBest(t)
        \/ ResetLockRow(t)
        \/ InsertResult(t)
        \/ CommitSave(t)
        \/ FailSave(t)

-----------------------------------------------------------------------------
(* Ranking and selection (run and _run_fine_search)                        *)

\* the sort key (r[0].get("total_return", 0), r[0].get("sharpe", 0)) of a result
RankKey(r) == <<r.metrics.total_return, r.metrics.sharpe>>

\* tuple comparison k1 < k2
KeyLt(k1, k2) == k1[1] < k2[1] \/ (k1[1] = k2[1] /\ k1[2] < k2[2])

\* a maximum by total_return alone (the sharpe tie-break forgotten)
PyMax_return_only(results) ==
    LET best == CHOOSE i \in DOMAIN results :
                    /\ \A j \in DOMAIN results :
                          results[i].metrics.total_return >= results[j].metrics.total_return
                    /\ \A j \in 1..(i - 1) :
                          results[j].metrics.total_return < results[i].metrics.total_return
    IN  results[best]

\* max(all_results, key=...): the first result no other result's key exceeds
PyMax(results) ==
    LET best == CHOOSE i \in DOMAIN results :
                    /\ \A j \in DOMAIN results : ~KeyLt(RankKey(results[i]), RankKey(results[j]))
                    /\ \A j \in 1..(i - 1) : KeyLt(RankKey(results[j]), RankKey(results[i]))
    IN  results[best]

RECURSIVE SortedPrefix(_, _)
\* the first n results sorted descending by key, results with equal keys in
\* their original order (each result goes behind those whose key is not lower)
SortedPrefix(results, n) ==
    IF n = 0 THEN <<>>
    ELSE LET acc == SortedPrefix(results, n - 1)
             r   == results[n]
             k   == Cardinality({j \in DOMAIN acc : ~KeyLt(RankKey(acc[j]), RankKey(r))})
         IN  SubSeq(acc, 1, k) \o <<r>> \o SubSeq(acc, k + 1, Len(acc))

\* sorted(coarse_results, key=..., reverse=True)
SortedDesc(results) == SortedPrefix(results, Len(results))

TopCap == 50

\* a top_n without the cap of 50
TopN_uncapped(len, top_percent) == Max2(1, (len * top_percent) \div 100)

\* top_n = max(1, min(50, int(len(sorted_results) * top_percent)))
TopN(len, top_percent) == Max2(1, Min2(TopCap, (len * top_percent) \div 100))

\* top_results = sorted_results[:top_n]
TopResults(results, top_percent) ==
    LET sorted_results == SortedDesc(results)
    IN  SubSeq(sorted_results, 1, Min2(TopN(Len(results), top_percent), Len(results)))

\* lists over S of the length of S, elements repeated or not
Orderings_repeating(S) == [1..Cardinality(S) -> S]

\* the lists that hold each element of set S once (iteration orders of a set)
Orderings(S) ==
    {f \in [1..Cardinality(S) -> S] : \A i, j \in 1..Cardinality(S) : i # j => f[i] # f[j]}

\* [{"weights": w, "threshold": th} for w in candidate_list for th in thresholds]
ParamList(candidate_list, ths) ==
    Flatten([w \in 1..Len(candidate_list) |->
        [t \in 1..Len(ths) |-> [weights |-> candidate_list[w], threshold |-> ths[t]]]])

\* fine_candidates as a set: the neighbors of the weights of all top results
FineCandidateSet(top_results, fine_step) ==
    UNION {Range(_generate_neighbor_weights(top_results[n].params.weights, fine_step, TopK)) :
                n \in DOMAIN top_results}

-----------------------------------------------------------------------------
(* One optimization cycle: run()                                           *)

\* a minimum one candle lower
MinCandles_low == 200 - 1

MinCandles == 200
MaxWorkers == 2              \* pool sizes tried: 1..MaxWorkers

OptPhases == {"IDLE", "COARSE_RUNNING", "COARSE_DONE", "FINE_RUNNING", "FINE_DONE",
              "PERSISTED", "RETURNED", "FAILED"}

\* metrics a backtest may return: (total_return, sharpe) in percent / units
MetricsInputs ==
    {[total_return |-> 0, sharpe |-> 0],
     [total_return |-> 5, sharpe |-> 0],
     [total_return |-> 5, sharpe |-> 2]}

NoMetrics == [total_return |-> 0, sharpe |-> 0]

StageTasks(stage) == {i \in DOMAIN tasks : tasks[i].stage = stage}
RunningTasks == {i \in DOMAIN tasks : tasks[i].state = "running"}
StageOf(phase) == IF phase = "COARSE_RUNNING" THEN "coarse" ELSE "fine"

\* the futures executor.map creates for a parameter list
Submitted(stage, param_list) ==
    [i \in 1..Len(param_list) |->
        [stage |-> stage, params |-> param_list[i], state |-> "pending",
         metrics |-> NoMetrics, runs |-> 0]]

\* results of the tasks of a stage, in submission order
StageResults(stage) ==
    LET idx == SelectSeq([i \in 1..Len(tasks) |-> i], LAMBDA i : tasks[i].stage = stage)
    IN  [n \in 1..Len(idx) |-> [metrics |-> tasks[idx[n]].metrics, params |-> tasks[idx[n]].params]]

\* optimizer_results after a save_optimizer_result call that ran alone
SavedAlone(table, mark_best) ==
    [id \in DOMAIN table |->
        IF mark_best /\ table[id].is_best THEN [table[id] EXCEPT !.is_best = FALSE]
        ELSE table[id]]
    \o << [is_best |-> mark_best, by |-> 1] >>

OptIdle ==
    /\ oPhase = "off"
    /\ numCandles = 0
    /\ thresholds = <<>>
    /\ topPercent = 0
    /\ maxWorkers = 0
    /\ tasks = <<>>
    /\ collected = 0
    /\ aborting = FALSE
    /\ coarseResults = <<>>
    /\ fineResults = <<>>
    /\ saveCalls = <<>>
    /\ topResults = <<>>
    /\ rPc = "off"

OptInit ==
    /\ oPhase = "IDLE"
    /\ numCandles \in {199, 200}
    /\ thresholds \in {<<>>, <<20>>}
    /\ topPercent \in {10, 67, 100}
    /\ maxWorkers \in 1..MaxWorkers
    /\ tasks = <<>>
    /\ collected = 0
    /\ aborting = FALSE
    /\ coarseResults = <<>>
    /\ fineResults = <<>>
    /\ saveCalls = <<>>
    /\ topResults = <<>>
    /\ rPc = "off"
    \* settings of the grid generators: two keys, steps 0.5 / 0.25
    /\ gPc = "off"
    /\ strategyKeys = SubSeq(STRATEGY_KEYS, 1, 2)
    /\ coarseStep = [num |-> TRUE, c |-> 50]
    /\ fineStep \in {FxCenti(25), FxCenti(200)}
    /\ candidates = <<>>
    /\ baseWeights = <<>>
    /\ neighbors = <<>>
    \* the table holds the best row of an earlier cycle, or nothing
    /\ rows \in InitialTables
    /\ txPc = [t \in Txns |-> "off"]
    /\ txMarkBest = [t \in Txns |-> FALSE]
    /\ txTargets = [t \in Txns |-> {}]
    /\ txLocks = [t \in Txns |-> {}]
    /\ txWrites = [t \in Txns |-> {}]
    /\ txBestBefore = [t \in Txns |-> {}]
    /\ txFailedAt = [t \in Txns |-> "none"]
    /\ BtIdle
    /\ SgIdle
    /\ TkIdle
    /\ CfgIdle
    /\ BuyIdle /\ LiveIdle

optFrame == <<gridVars, txPc, txMarkBest, txTargets, txLocks, txWrites, txBestBefore,
              txFailedAt, rPc, btVars, sgVars, tkVars, cfgVars, buyVars, liveVars>>

\* run() up to the first executor: load_ohlcv, the len(candles) < 200 return,
\* and _run_coarse_search up to executor.map
StartCoarse ==
    /\ oPhase = "IDLE"
    /\ IF numCandles < MinCandles
       THEN /\ oPhase' = "RETURNED"
            /\ UNCHANGED tasks
       ELSE /\ oPhase' = "COARSE_RUNNING"
            /\ tasks' = Submitted("coarse",
                            ParamList(_generate_weight_grid(coarseStep, strategyKeys), thresholds))
    /\ collected' = 0
    /\ UNCHANGED <<numCandles, thresholds, topPercent, maxWorkers, aborting, coarseResults,
                   fineResults, saveCalls, rows>>
    /\ UNCHANGED topResults
    /\ UNCHANGED optFrame

\* a worker thread of the pool takes the oldest pending task
StartTask ==
    /\ oPhase \in {"COARSE_RUNNING", "FINE_RUNNING"}
    /\ Cardinality(RunningTasks) < maxWorkers
    /\ \E i \in DOMAIN tasks :
        /\ tasks[i].state = "pending"
        /\ \A j \in 1..(i - 1) : tasks[j].state # "pending"
        /\ tasks' = [tasks EXCEPT ![i].state = "running", ![i].runs = @ + 1]
    /\ UNCHANGED <<oPhase, numCandles, thresholds, topPercent, maxWorkers, collected, aborting,
                   coarseResults, fineResults, saveCalls, rows>>
    /\ UNCHANGED topResults
    /\ UNCHANGED optFrame

\* a task whose exception is swallowed and which is queued again
AfterRaise_retry(task) == [task EXCEPT !.state = "pending"]

\* the state of a task whose _eval_one raised
AfterRaise(task) == [task EXCEPT !.state = "raised"]

\* _eval_one returns (metrics, p) or raises
FinishTask ==
    /\ oPhase \in {"COARSE_RUNNING", "FINE_RUNNING"}
    /\ \E i \in RunningTasks :
        \/ \E mt \in MetricsInputs :
              tasks' = [tasks EXCEPT ![i].state = "done", ![i].metrics = mt]
        \/ tasks' = [tasks EXCEPT ![i] = AfterRaise(tasks[i])]
    /\ UNCHANGED <<oPhase, numCandles, thresholds, topPercent, maxWorkers, collected, aborting,
                   coarseResults, fineResults, saveCalls, rows>>
    /\ UNCHANGED topResults
    /\ UNCHANGED optFrame

\* the loop over executor.map: the next result in submission order is appended,
\* or its exception is raised in run(), which cancels the pending futures
CollectResult ==
    /\ oPhase \in {"COARSE_RUNNING", "FINE_RUNNING"}
    /\ ~aborting
    /\ LET stage_tasks == SelectSeq([i \in 1..Len(tasks) |-> i],
                                    LAMBDA i : tasks[i].stage = StageOf(oPhase))
       IN  /\ collected < Len(stage_tasks)
           /\ LET i == stage_tasks[collected + 1]
              IN  \/ /\ tasks[i].state = "done"
                     /\ collected' = collected + 1
                     /\ UNCHANGED <<tasks, aborting>>
                  \/ /\ tasks[i].state = "raised"
                     /\ aborting' = TRUE
                     /\ tasks' = [j \in DOMAIN tasks |->
                                    IF tasks[j].state = "pending"
                                    THEN [tasks[j] EXCEPT !.state = "cancelled"]
                                    ELSE tasks[j]]
                     /\ UNCHANGED collected
    /\ UNCHANGED <<oPhase, numCandles, thresholds, topPercent, maxWorkers,
                   coarseResults, fineResults, saveCalls, rows>>
    /\ UNCHANGED topResults
    /\ UNCHANGED optFrame

\* a stage that returns as soon as its first result is in, without waiting
\* for the other futures
StageJoined_first == collected >= 1

\* the loop over executor.map has appended every result of the stage and the
\* with-block has waited for the worker threads
StageJoined ==
    /\ RunningTasks = {}
    /\ collected = Cardinality(StageTasks(StageOf(oPhase)))

\* the with-block of the executor is left: the stage returns its results, or
\* (once no task runs) the exception leaves run(), logged and re-raised
JoinStage ==
    /\ oPhase \in {"COARSE_RUNNING", "FINE_RUNNING"}
    /\ \/ /\ aborting
          /\ RunningTasks = {}
          /\ oPhase' = "FAILED"
          /\ UNCHANGED <<coarseResults, fineResults>>
       \/ /\ ~aborting
          /\ StageJoined
          /\ IF oPhase = "COARSE_RUNNING"
             THEN /\ oPhase' = "COARSE_DONE"
                  /\ coarseResults' = StageResults("coarse")
                  /\ UNCHANGED fineResults
             ELSE /\ oPhase' = "FINE_DONE"
                  /\ fineResults' = StageResults("fine")
                  /\ UNCHANGED coarseResults
    /\ UNCHANGED <<numCandles, thresholds, topPercent, maxWorkers, tasks, collected, aborting,
                   saveCalls, rows>>
    /\ UNCHANGED topResults
    /\ UNCHANGED optFrame

\* a fine stage entered whatever the coarse stage returned
NoCandidate_never(coarse_results) == FALSE

\* "if not coarse_results" of run()
NoCandidate(coarse_results) == coarse_results = <<>>

\* run() between the stages: the empty-result return, then _run_fine_search up
\* to executor.map (top results, their neighbors as a set, the set listed in
\* some order, crossed with the thresholds)
StartFine ==
    /\ oPhase = "COARSE_DONE"
    /\ IF NoCandidate(coarseResults)
       THEN /\ oPhase' = "RETURNED"
            /\ UNCHANGED <<tasks, topResults>>
       ELSE /\ oPhase' = "FINE_RUNNING"
            /\ topResults' = TopResults(coarseResults, topPercent)
            /\ \E fine_candidates \in Orderings(FineCandidateSet(topResults', fineStep)) :
                  tasks' = tasks \o Submitted("fine", ParamList(fine_candidates, thresholds))
    /\ collected' = 0
    /\ UNCHANGED <<numCandles, thresholds, topPercent, maxWorkers, aborting, coarseResults,
                   fineResults, saveCalls, rows>>
    /\ UNCHANGED optFrame

\* ---- stage 2 entered from given stage-1 results ----

\* threshold lists: none, one value, two values, one value configured twice
FineThresholdInputs == {<<>>, <<20>>, <<20, 50>>, <<20, 20>>}

\* the result lists a stage 1 over the grid of two keys may have returned
CoarseResultInputs(ths) ==
    LET param_list == ParamList(_generate_weight_grid([num |-> TRUE, c |-> 50],
                                                      SubSeq(STRATEGY_KEYS, 1, 2)), ths)
    IN  {[i \in 1..Len(param_list) |-> [metrics |-> ms[i], params |-> param_list[i]]] :
            ms \in [1..Len(param_list) -> MetricsInputs]}

FineInit ==
    /\ oPhase = "COARSE_DONE"
    /\ numCandles = MinCandles
    /\ thresholds \in FineThresholdInputs
    /\ topPercent \in {10, 67, 100}
    /\ maxWorkers = 1
    /\ coarseResults \in CoarseResultInputs(thresholds)
    /\ tasks = [i \in 1..Len(coarseResults) |->
                   [stage |-> "coarse", params |-> coarseResults[i].params, state |-> "done",
                    metrics |-> coarseResults[i].metrics, runs |-> 1]]
    /\ collected = Len(coarseResults)
    /\ aborting = FALSE
    /\ fineResults = <<>>
    /\ saveCalls = <<>>
    /\ topResults = <<>>
    /\ rPc = "off"
    /\ gPc = "off"
    /\ strategyKeys = SubSeq(STRATEGY_KEYS, 1, 2)
    /\ coarseStep = [num |-> TRUE, c |-> 50]
    /\ fineStep \in {FxCenti(25), FxCenti(200)}
    /\ candidates = <<>>
    /\ baseWeights = <<>>
    /\ neighbors = <<>>
    /\ DbIdle /\ BtIdle /\ SgIdle /\ TkIdle /\ CfgIdle /\ BuyIdle /\ LiveIdle

\* a winner taken from the coarse results alone
SelectBest_coarse(coarse_results, fine_results) == PyMax(coarse_results)

\* the winner run() selects: max over coarse_results + fine_results
SelectBest(coarse_results, fine_results) == PyMax(coarse_results \o fine_results)

\* run() after the fine stage: select the best and save it with mark_best=True;
\* the save commits, or raises and is rolled back
SaveBest ==
    /\ oPhase = "FINE_DONE"
    /\ LET best == SelectBest(coarseResults, fineResults)
       IN  saveCalls' = Append(saveCalls,
                [params |-> best.params, metrics |-> best.metrics, mark_best |-> TRUE])
    /\ \/ /\ rows' = SavedAlone(rows, TRUE)
          /\ oPhase' = "PERSISTED"
       \/ /\ rows' = rows
          /\ oPhase' = "FAILED"
    /\ UNCHANGED <<numCandles, thresholds, topPercent, maxWorkers, tasks, collected, aborting,
                   coarseResults, fineResults>>
    /\ UNCHANGED topResults
    /\ UNCHANGED optFrame

OptNext ==
    \/ StartCoarse
    \/ StartTask
    \/ FinishTask
    \/ CollectResult
    \/ JoinStage
    \/ StartFine
    \/ SaveBest

-----------------------------------------------------------------------------
(* The buy block of _backtest in the arithmetic of the interpreter: Python  *)
(* floats are IEEE-754 doubles, every operation rounded to 53 significant   *)
(* bits, ties to even. Naturals wider than the checker's integers are kept  *)
(* as sequences of limbs, least significant first.                          *)

LimbBits == 15
Limb == 32 * 1024             \* 2^LimbBits

RECURSIVE Pow2(_)
Pow2(k) == IF k = 0 THEN 1 ELSE 2 * Pow2(k - 1)

RECURSIVE BnTrim(_)
BnTrim(a) ==
    IF a = <<>> THEN <<>>
    ELSE IF a[Len(a)] = 0 THEN BnTrim(SubSeq(a, 1, Len(a) - 1)) ELSE a

RECURSIVE BnFromNat(_)
BnFromNat(n) == IF n = 0 THEN <<>> ELSE <<n % Limb>> \o BnFromNat(n \div Limb)

RECURSIVE BnAddC(_, _, _)
BnAddC(a, b, c) ==
    IF a = <<>> /\ b = <<>> THEN (IF c = 0 THEN <<>> ELSE <<c>>)
    ELSE LET x == (IF a = <<>> THEN 0 ELSE Head(a)) + (IF b = <<>> THEN 0 ELSE Head(b)) + c
         IN  <<x % Limb>> \o BnAddC(IF a = <<>> THEN <<>> ELSE Tail(a),
                                    IF b = <<>> THEN <<>> ELSE Tail(b), x \div Limb)

BnAdd(a, b) == BnTrim(BnAddC(a, b, 0))

\* a - b for a >= b
RECURSIVE BnSubC(_, _, _)
BnSubC(a, b, c) ==
    IF a = <<>> THEN <<>>
    ELSE LET x == Head(a) - (IF b = <<>> THEN 0 ELSE Head(b)) - c
         IN  <<(x + Limb) % Limb>> \o BnSubC(Tail(a), IF b = <<>> THEN <<>> ELSE Tail(b),
                                             IF x < 0 THEN 1 ELSE 0)

BnSub(a, b) == BnTrim(BnSubC(a, b, 0))

\* a < b, both trimmed
RECURSIVE BnLt(_, _)
BnLt(a, b) ==
    IF Len(a) # Len(b) THEN Len(a) < Len(b)
    ELSE IF a = <<>> THEN FALSE
    ELSE IF a[Len(a)] # b[Len(b)] THEN a[Len(a)] < b[Len(b)]
    ELSE BnLt(BnTrim(SubSeq(a, 1, Len(a) - 1)), BnTrim(SubSeq(b, 1, Len(b) - 1)))

RECURSIVE BnMulSmall(_, _, _)
BnMulSmall(a, k, c) ==
    IF a = <<>> THEN (IF c = 0 THEN <<>> ELSE <<c>>)
    ELSE LET x == Head(a) * k + c
         IN  <<x % Limb>> \o BnMulSmall(Tail(a), k, x \div Limb)

\* a * k for a natural k < Limb
BnTimes(a, k) == BnTrim(BnMulSmall(a, k, 0))

RECURSIVE BnMul(_, _)
BnMul(a, b) ==
    IF b = <<>> \/ a = <<>> THEN <<>>
    ELSE BnAdd(BnTimes(a, Head(b)), BnTrim(<<0>> \o BnMul(a, Tail(b))))

\* a * 2^k
BnShl(a, k) ==
    IF a = <<>> THEN <<>>
    ELSE BnTrim([j \in 1..(k \div LimbBits) |-> 0] \o BnMulSmall(a, Pow2(k % LimbBits), 0))

\* floor(a / 2^k)
BnShr(a, k) ==
    LET drop == k \div LimbBits
        s    == k % LimbBits
        rest == IF drop >= Len(a) THEN <<>> ELSE SubSeq(a, drop + 1, Len(a))
    IN  BnTrim([j \in 1..Len(rest) |->
                   (rest[j] \div Pow2(s))
                   + (IF j < Len(rest) THEN (rest[j + 1] % Pow2(s)) * Pow2(LimbBits - s) ELSE 0)])

RECURSIVE BitLenNat(_)
BitLenNat(n) == IF n = 0 THEN 0 ELSE 1 + BitLenNat(n \div 2)

BnBitLen(a) == IF a = <<>> THEN 0 ELSE LimbBits * (Len(a) - 1) + BitLenNat(a[Len(a)])

BnBit(a, k) ==
    IF k \div LimbBits >= Len(a) THEN 0
    ELSE (a[k \div LimbBits + 1] \div Pow2(k % LimbBits)) % 2

BnOdd(a) == a # <<>> /\ a[1] % 2 = 1

\* the k-th group of four bits of a
BnNibble(a, k) ==
    BnBit(a, 4 * k) + 2 * BnBit(a, 4 * k + 1) + 4 * BnBit(a, 4 * k + 2) + 8 * BnBit(a, 4 * k + 3)

\* long division of n by d > 0, four bits at a time from group k downwards:
\* q and r are the quotient and the remainder of the groups above k
RECURSIVE BnDivFrom(_, _, _, _, _)
BnDivFrom(n, d, k, q, r) ==
    IF k < 0 THEN [q |-> q, r |-> r]
    ELSE LET r16 == BnAdd(BnTimes(r, 16), BnFromNat(BnNibble(n, k)))
             t   == CHOOSE u \in 0..15 :
                        /\ ~BnLt(r16, BnTimes(d, u))
                        /\ BnLt(r16, BnTimes(d, u + 1))
             q2  == BnAdd(BnTimes(q, 16), BnFromNat(t))
             r2  == BnSub(r16, BnTimes(d, t))
         IN  IF q2 = q2 /\ r2 = r2 THEN BnDivFrom(n, d, k - 1, q2, r2) ELSE [q |-> q, r |-> r]

BnDivMod(n, d) == BnDivFrom(n, d, (BnBitLen(n) + 3) \div 4 - 1, <<>>, <<>>)

\* ---- doubles: neg, m, e stand for (-1)^neg * m * 2^e, m of MantBits bits ----

MantBits == 53

FlZero == [neg |-> FALSE, m |-> <<>>, e |-> 0]

\* n * 2^e (sticky: plus a non-zero part below the last bit of n) rounded to
\* the nearest double, ties to even
FlRound(n, e, sticky) ==
    LET len == BnBitLen(n)
    IN  IF n = <<>> THEN FlZero
        ELSE IF len <= MantBits
        THEN [neg |-> FALSE, m |-> BnShl(n, MantBits - len), e |-> e - (MantBits - len)]
        ELSE LET k    == len - MantBits
                 q    == BnShr(n, k)
                 rem  == BnSub(n, BnShl(q, k))
                 half == BnShl(<<1>>, k - 1)
                 up   == \/ BnLt(half, rem)
                         \/ rem = half /\ (sticky \/ BnOdd(q))
                 q2   == IF up THEN BnAdd(q, <<1>>) ELSE q
             IN  IF BnBitLen(q2) > MantBits
                 THEN [neg |-> FALSE, m |-> BnShr(q2, 1), e |-> e + k + 1]
                 ELSE [neg |-> FALSE, m |-> q2, e |-> e + k]

\* float(n) of a natural n, and n * 2^e for a dyadic constant
FlNat(n) == FlRound(BnFromNat(n), 0, FALSE)
FlDyadic(n, e) == FlRound(BnFromNat(n), e, FALSE)

\* x * y
FlMul(x, y) == FlRound(BnMul(x.m, y.m), x.e + y.e, FALSE)

\* x / y, y # 0
FlDiv(x, y) ==
    IF x.m = <<>> THEN FlZero
    ELSE LET d == BnDivMod(BnShl(x.m, 60), y.m)
         IN  FlRound(d.q, x.e - 60 - y.e, d.r # <<>>)

\* the mantissas of x and y over their common (smaller) exponent
Aligned(x, y) ==
    LET e0 == IF x.m = <<>> THEN y.e ELSE IF y.m = <<>> THEN x.e
              ELSE IF x.e < y.e THEN x.e ELSE y.e
    IN  [a |-> IF x.m = <<>> THEN <<>> ELSE BnShl(x.m, x.e - e0),
         b |-> IF y.m = <<>> THEN <<>> ELSE BnShl(y.m, y.e - e0),
         e |-> e0]

\* x + y and x - y for x, y >= 0
FlAdd(x, y) == LET al == Aligned(x, y) IN FlRound(BnAdd(al.a, al.b), al.e, FALSE)

FlSub(x, y) ==
    LET al == Aligned(x, y)
    IN  IF BnLt(al.a, al.b)
        THEN [FlRound(BnSub(al.b, al.a), al.e, FALSE) EXCEPT !.neg = TRUE]
        ELSE FlRound(BnSub(al.a, al.b), al.e, FALSE)

\* x < y for x, y >= 0
FlLt(x, y) == LET al == Aligned(x, y) IN BnLt(al.a, al.b)

\* np.floor(x), x >= 0
FlFloor(x) == IF x.e >= 0 THEN x ELSE FlRound(BnShr(x.m, -x.e), 0, FALSE)

\* ---- the BUY block (lines 448-463) on doubles ----

\* fee_rate and fee_buffer: none, or 2^-11 (0.00048828125)
FeeInputs == {FlZero, FlDyadic(1, -11)}

\* cash_krw and exec_price of the calls, in whole KRW
BuyCashInputs == {5000, 5001, 10000, 838678, 1000000, 1486324, 3252406}
BuyPriceInputs == {1442, 2000, 3194, 4000, 9990}

BuyInit ==
    /\ buyArgs \in [kind : {"call"}, cash_krw : BuyCashInputs, exec_price : BuyPriceInputs,
                    fee_rate : FeeInputs, fee_buffer : FeeInputs]
    /\ buyDone = NoBuy

\* the block "if cash_krw > min_order_krw: ..." of the BUY branch
BuyBlock(cash, target_price, fee, buffer) ==
    LET effective_unit_cost == FlMul(target_price, FlAdd(FlAdd(FlNat(1), fee), buffer))
        raw_volume == FlDiv(cash, effective_unit_cost)
        volume     == FlDiv(FlFloor(FlMul(raw_volume, FlNat(100000000))), FlNat(100000000))
        spend      == FlMul(target_price, volume)
        paid       == FlAdd(spend, FlMul(spend, fee))
        order      == [target_price |-> target_price, effective_unit_cost |-> effective_unit_cost,
                       raw_volume |-> raw_volume, volume |-> volume]
    IN  IF ~FlLt(FlNat(MinOrderKrw \div MoneyScale), cash)
        THEN [kind |-> "skipped", cash_krw |-> cash, coin_qty |-> FlZero, total_trades |-> 0]
        ELSE IF FlLt(FlZero, volume) /\ FlLt(FlNat(MinOrderKrw \div MoneyScale), spend)
        THEN order @@ [kind |-> "bought", spend |-> spend, paid |-> paid,
                       cash_before |-> cash,
                       cash_krw |-> FlSub(cash, paid), coin_qty |-> FlAdd(FlZero, volume),
                       total_trades |-> 1]
        ELSE order @@ [kind |-> "too_small", cash_krw |-> cash, coin_qty |-> FlZero,
                       total_trades |-> 0]

\* the BUY branch taken with the cash and the next open of the call
Buy ==
    /\ buyArgs # NoBuy
    /\ buyDone = NoBuy
    /\ buyDone' = BuyBlock(FlNat(buyArgs.cash_krw),
                           FlNat(BuyTargetPrice(buyArgs.exec_price * MoneyScale, 15)
                                   \div MoneyScale),
                           buyArgs.fee_rate, buyArgs.fee_buffer)
    /\ UNCHANGED buyArgs
    /\ UNCHANGED nonBuyVars

BuyNext == Buy

-----------------------------------------------------------------------------
(* One stage with its evaluations run piece by piece: every running task   *)
(* is a call _eval_one(p) whose _backtest advances one loop iteration at a *)
(* time, interleaved with the calls of the other worker threads. The       *)
(* candle list, the fees and the settings are the ones all calls are       *)
(* handed; weights and threshold are those of the task's params.           *)

\* closes of the candle lists of a stage: rising, rising then falling,
\* alternating, and a drop after two candles
PoolCloses ==
    {[k \in 1..MaxCandles |-> 2000 + 200 * k],
     [k \in 1..MaxCandles |-> IF k <= 3 THEN 2000 + 400 * k ELSE 4400 - 400 * k],
     [k \in 1..MaxCandles |-> IF k % 2 = 1 THEN 2000 ELSE 4000],
     [k \in 1..MaxCandles |-> IF k <= 2 THEN 4000 ELSE 2000]}

\* the param_list of the stage: two weight dicts crossed with two thresholds
PoolParams ==
    ParamList(<<WeightsOf([trend |-> FxOne]),
                WeightsOf([trend |-> FxCenti(50), price_action |-> FxCenti(50)])>>,
              <<FxCenti(20), FxCenti(60)>>)

\* the arguments of the call a task whose params are those of the last task
\* makes (p bound late)
EvalArgs_last(ts, i) ==
    [ArgsNow EXCEPT !.weights = ts[Len(ts)].params.weights,
                    !.threshold = ts[Len(ts)].params.threshold]

\* the arguments of the _backtest call of _eval_one(p), p the params of task i
EvalArgs(ts, i) ==
    [ArgsNow EXCEPT !.weights = ts[i].params.weights, !.threshold = ts[i].params.threshold]

NotEntered == [pc |-> "call"]

PoolInit ==
    /\ oPhase \in {"COARSE_RUNNING", "FINE_RUNNING"}
    /\ numCandles = MinCandles
    /\ thresholds = <<FxCenti(20), FxCenti(60)>>
    /\ topPercent = 100
    /\ maxWorkers \in 1..MaxWorkers
    /\ tasks = [i \in DOMAIN PoolParams |->
                   Submitted(StageOf(oPhase), PoolParams)[i] @@ [locals |-> NotEntered]]
    /\ collected = 0
    /\ aborting = FALSE
    /\ coarseResults = <<>>
    /\ fineResults = <<>>
    /\ saveCalls = <<>>
    /\ topResults = <<>>
    /\ rPc = "off"
    /\ GridIdle /\ DbIdle /\ SgIdle /\ TkIdle /\ CfgIdle /\ BuyIdle /\ LiveIdle
    \* the arguments shared by the calls
    /\ candles \in {MakeCandles(c, "continuous") : c \in PoolCloses}
    /\ initial_cash = 10000 * MoneyScale
    /\ fee_rate = 5
    /\ fee_buffer = 5
    /\ aggressiveness = 15
    /\ window = 3
    /\ early_stop_threshold = -30
    /\ early_stop_candles = 4
    \* no call is held in the backtest variables
    /\ btPc = "off"
    /\ weights = <<>>
    /\ threshold = FxZero
    /\ iStep = 0
    /\ cash_krw = 0
    /\ coin_qty = 0
    /\ equity_curve = <<>>
    /\ returns = <<>>
    /\ last_equity = 0
    /\ win_trades = 0
    /\ total_trades = 0
    /\ trade_log = <<>>
    /\ btResult = NoResult
    /\ lastStep = NoStep
    /\ btRun = 0
    /\ btFirstResult = NoResult

poolFrame == <<oPhase, numCandles, thresholds, topPercent, maxWorkers, collected, aborting,
               coarseResults, fineResults, saveCalls, rows, topResults>>

\* a worker thread runs the next piece of its call: the entry of _backtest, an
\* iteration of its loop, or the code after the loop
EvalStep ==
    /\ oPhase \in {"COARSE_RUNNING", "FINE_RUNNING"}
    /\ \E i \in RunningTasks :
        /\ tasks[i].locals.pc # "returned"
        /\ tasks' = [tasks EXCEPT ![i].locals =
                        IF @.pc = "call" THEN EntryLocals(EvalArgs(tasks, i))
                        ELSE LoopBody(EvalArgs(tasks, i), @)]
    /\ UNCHANGED poolFrame
    /\ UNCHANGED optFrame

\* _eval_one returns (metrics, p)
EvalReturn ==
    /\ oPhase \in {"COARSE_RUNNING", "FINE_RUNNING"}
    /\ \E i \in RunningTasks :
        /\ tasks[i].locals.pc = "returned"
        /\ tasks' = [tasks EXCEPT ![i].state = "done", ![i].metrics = tasks[i].locals.result]
    /\ UNCHANGED poolFrame
    /\ UNCHANGED optFrame

PoolNext ==
    \/ StartTask
    \/ EvalStep
    \/ EvalReturn
    \/ CollectResult
    \/ JoinStage

-----------------------------------------------------------------------------
(* Selection of the stage-2 seeds alone, on result lists longer than a     *)
(* model-checked cycle produces (so that the cap of 50 is reached).        *)

MaxCoarseLen == 52           \* coarse result lists of 1..MaxCoarseLen results

\* how the metrics of a list vary along it: result i has
\* total_return (a * i) % m and sharpe (b * i) % 3
RankShapes ==
    {[a |-> 0, b |-> 0, m |-> 1], [a |-> 1, b |-> 1, m |-> 4],
     [a |-> 3, b |-> 2, m |-> 7], [a |-> 1, b |-> 0, m |-> 100]}

RankInput(n, shape) ==
    [i \in 1..n |->
        [metrics |-> [total_return |-> (shape.a * i) % shape.m, sharpe |-> (shape.b * i) % 3],
         params  |-> i]]

RankInit ==
    /\ rPc = "input"
    /\ coarseResults \in {RankInput(n, shape) : n \in 1..MaxCoarseLen, shape \in RankShapes}
    /\ topPercent \in {1, 10, 34, 67, 100}
    /\ topResults = <<>>
    /\ oPhase = "off"
    /\ numCandles = 0
    /\ thresholds = <<>>
    /\ maxWorkers = 0
    /\ tasks = <<>>
    /\ collected = 0
    /\ aborting = FALSE
    /\ fineResults = <<>>
    /\ saveCalls = <<>>

\* _run_fine_search: sorted_results, top_n and top_results
SelectTop ==
    /\ rPc = "input"
    /\ topResults' = TopResults(coarseResults, topPercent)
    /\ rPc' = "selected"
    /\ UNCHANGED <<oPhase, numCandles, thresholds, topPercent, maxWorkers, tasks, collected,
                   aborting, coarseResults, fineResults, saveCalls>>
    /\ UNCHANGED <<gridVars, dbVars, btVars, sgVars, tkVars, cfgVars, buyVars, liveVars>>

RankNext == SelectTop

-----------------------------------------------------------------------------
(* The collector: collector.run calls collect_data once or twice; a call   *)
(* asks the exchange for the latest candles, keeps those not older than    *)
(* the newest stored one and upserts them in one transaction.  A candle is *)
(* a timestamp (a minute number) and a close; the other columns are        *)
(* written the same way as close.                                          *)

MaxResponseLen == 2          \* candles in one exchange response

\* the candles an answer may hold: two minutes, two closes
CandleItems == [ts : {1, 2}, close : {10, 11}]

\* the answers of the exchange: lists of candles in any order
Responses == UNION {[1..n -> CandleItems] : n \in 0..MaxResponseLen}

\* what the table may hold before the first run
StoreInputs ==
    {{},
     {[timeframe |-> "1m", ts |-> 1, close |-> 10]},
     {[timeframe |-> "3m", ts |-> 2, close |-> 11]},
     {[timeframe |-> "1m", ts |-> 0, close |-> 10], [timeframe |-> "1m", ts |-> 2, close |-> 10]}}

\* rows.sort(key=lambda r: r[1]): ascending by ts, equal ts in their order
RECURSIVE SortByTs(_)
SortByTs(batch) ==
    IF batch = <<>> THEN <<>>
    ELSE LET head == SortByTs(SubSeq(batch, 1, Len(batch) - 1))
             x    == batch[Len(batch)]
             k    == Cardinality({j \in DOMAIN head : head[j].ts <= x.ts})
         IN  SubSeq(head, 1, k) \o <<x>> \o SubSeq(head, k + 1, Len(head))

\* _serialize_candles: one row per item, sorted
_serialize_candles(raw, timeframe) ==
    SortByTs([k \in DOMAIN raw |-> [timeframe |-> timeframe, ts |-> raw[k].ts,
                                    close |-> raw[k].close]])

\* _get_last_candle_timestamp: max(ts) of the timeframe, -1 for None
_get_last_candle_timestamp(store, timeframe) ==
    LET stamps == {r.ts : r \in {q \in store : q.timeframe = timeframe}}
    IN  IF stamps = {} THEN -1 ELSE CHOOSE t \in stamps : \A u \in stamps : u <= t

\* "rows = [row for row in rows if row[1] >= last_ts]" when last_ts is not None
NotOlder(batch, last_ts) ==
    IF last_ts = -1 THEN batch ELSE SelectSeq(batch, LAMBDA r : r.ts >= last_ts)

\* the statement proposes one key twice: PostgreSQL rejects it
\* ("ON CONFLICT DO UPDATE command cannot affect row a second time")
ProposesKeyTwice(batch) ==
    \E j, k \in DOMAIN batch : j # k /\ batch[j].timeframe = batch[k].timeframe
                                   /\ batch[j].ts = batch[k].ts

\* an insert that leaves the stored row of a proposed key in place
_upsert_candles_insert(store, batch) == store \cup Range(batch)

\* INSERT ... ON CONFLICT (timeframe, ts) DO UPDATE: the stored row of a
\* proposed key is replaced by the proposed row
_upsert_candles(store, batch) ==
    {r \in store : \A k \in DOMAIN batch : ~(batch[k].timeframe = r.timeframe /\ batch[k].ts = r.ts)}
        \cup Range(batch)

\* a second call whatever the first returned
RetryDue_always(inserted) == TRUE

\* "if inserted == 0" of collector.run
RetryDue(inserted) == inserted = 0

ColInit ==
    /\ cPc = "idle"
    /\ cTimeframe \in {"1m", "3m"}
    /\ candleStore \in StoreInputs
    /\ cResponse = NoResponse
    /\ cCalls = <<>>
    /\ cOutcome = "none"

colFrame == <<nonLiveVars, chVars, trVars>>

\* collector.run is called
CollectorRun ==
    /\ cPc = "idle"
    /\ cPc' = "first"
    /\ cCalls' = <<>>
    /\ UNCHANGED <<cTimeframe, candleStore, cResponse, cOutcome>>
    /\ UNCHANGED colFrame

\* what collector.run does after a call of collect_data returned
AfterCall(inserted) == IF cPc = "first" /\ RetryDue(inserted) THEN "second" ELSE "done"

\* one call of collect_data: the request, the rows, the upsert, the commit;
\* or an exception (the request, the connection, a statement), which leaves
\* the with-block of the connection and rolls the transaction back
CollectData ==
    /\ cPc \in {"first", "second"}
    /\ \/ \E raw \in Responses :
            LET batch == NotOlder(_serialize_candles(raw, cTimeframe),
                                 _get_last_candle_timestamp(candleStore, cTimeframe))
            IN  IF ProposesKeyTwice(batch)
                THEN /\ cPc' = "raised"
                     /\ cCalls' = Append(cCalls, -1)
                     /\ cResponse' = NoResponse
                     /\ UNCHANGED candleStore
                ELSE /\ candleStore' = _upsert_candles(candleStore, batch)
                     /\ cResponse' = [kind |-> "json", raw |-> raw,
                                       again |-> cResponse.kind = "json" /\ cResponse.raw = raw]
                     /\ cCalls' = Append(cCalls, Len(batch))
                     /\ cPc' = AfterCall(Len(batch))
       \/ /\ cPc' = "raised"
          /\ cCalls' = Append(cCalls, -1)
          /\ cResponse' = NoResponse
          /\ UNCHANGED candleStore
    /\ UNCHANGED <<cTimeframe, cOutcome>>
    /\ UNCHANGED colFrame

\* collector.run ends: it logs and returns, or logs and re-raises
CollectorEnd ==
    /\ cPc \in {"done", "raised"}
    /\ cOutcome' = IF cPc = "raised" THEN "raised" ELSE "returned"
    /\ cPc' = "idle"
    /\ UNCHANGED <<cTimeframe, candleStore, cResponse, cCalls>>
    /\ UNCHANGED colFrame

ColNext ==
    \/ CollectorRun
    \/ CollectData
    \/ CollectorEnd

-----------------------------------------------------------------------------
(* The minute schedule: beat sends collect_and_trade, which sends the      *)
(* chain collect_data -> run_trade.  The tasks of a tick and of different  *)
(* ticks are run by the workers of their queues in any interleaving.       *)

MaxTicks == 3                \* ticks of the minute schedule

\* the second task of the chain is sent whatever the first did
Linked_always(outcome) == TRUE

\* chain(a, b): b is sent when a has succeeded; a task that raised ends the chain
Linked(outcome) == outcome = "returned"

chFrame == <<nonLiveVars, colVars, trVars>>

\* beat_schedule "collect-then-trade-every-minute": the task is sent
BeatTick ==
    /\ Len(chTicks) < MaxTicks
    /\ chTicks' = Append(chTicks, [coord |-> "queued", collect |-> "none", trade |-> "none"])
    /\ UNCHANGED chFrame

\* collect_and_trade runs: chain(...).delay() sends collect_data
CollectAndTrade ==
    /\ \E t \in DOMAIN chTicks :
          /\ chTicks[t].coord = "queued"
          /\ chTicks' = [chTicks EXCEPT ![t].coord = "done", ![t].collect = "queued"]
    /\ UNCHANGED chFrame

\* a worker of collector_queue takes the collect_data task of a tick
StartCollectTask ==
    /\ \E t \in DOMAIN chTicks :
          /\ chTicks[t].collect = "queued"
          /\ chTicks' = [chTicks EXCEPT ![t].collect = "running"]
    /\ UNCHANGED chFrame

\* collect_data = collector.run() returns or raises; the chain goes on or ends
EndCollectTask ==
    /\ \E t \in DOMAIN chTicks, outcome \in {"returned", "raised"} :
          /\ chTicks[t].collect = "running"
          /\ chTicks' = [chTicks EXCEPT
                           ![t].collect = IF outcome = "returned" THEN "succeeded" ELSE "failed",
                           ![t].trade = IF Linked(outcome) THEN "queued" ELSE "none"]
    /\ UNCHANGED chFrame

\* a worker of trader_queue takes the run_trade task of a tick
StartTradeTask ==
    /\ \E t \in DOMAIN chTicks :
          /\ chTicks[t].trade = "queued"
          /\ chTicks' = [chTicks EXCEPT ![t].trade = "running"]
    /\ UNCHANGED chFrame

\* run_trade = trader.run() returns or raises
EndTradeTask ==
    /\ \E t \in DOMAIN chTicks, outcome \in {"returned", "raised"} :
          /\ chTicks[t].trade = "running"
          /\ chTicks' = [chTicks EXCEPT
                           ![t].trade = IF outcome = "returned" THEN "succeeded" ELSE "failed"]
    /\ UNCHANGED chFrame

ChNext ==
    \/ BeatTick
    \/ CollectAndTrade
    \/ StartCollectTask
    \/ EndCollectTask
    \/ StartTradeTask
    \/ EndTradeTask

-----------------------------------------------------------------------------
(* The live trader: run_trade reads the recent closes and the weights,     *)
(* computes the score and, on a buy or sell signal, the order from the     *)
(* account balances; the order accepted by the exchange is recorded by     *)
(* _record_order_and_trades.  Money in 1e-4 KRW, coin in 1e-8, as in the   *)
(* backtest.                                                               *)

MaxFills == 2                \* trades in the answer of fetch_order

\* "if len(prices) < 3"
MinPrices == 3

\* the weights get_recent_weights returns when no best row is stored
FallbackWeights ==
    WeightsOf([trend |-> FxCenti(20), momentum |-> FxCenti(20), swing |-> FxCenti(20),
               scalping |-> FxCenti(15), day |-> FxCenti(15), price_action |-> FxCenti(10)])

\* closes of the last minutes, oldest first
TrPriceInputs ==
    {<<>>, <<2000, 2100>>, <<2000, 2100, 2200>>, <<2200, 2100, 2000>>, <<2000, 2000, 2000>>,
     <<2000, 2100, 2200, 2300, 2400>>, <<2400, 2300, 2200, 2100, 2000>>}

\* account entries: balance and locked, KRW in 1e-4 KRW and coin in 1e-8
TrKrwInputs ==
    {[balance |-> 0, locked |-> 0],
     [balance |-> 5000 * MoneyScale, locked |-> 0],
     [balance |-> 10000 * MoneyScale, locked |-> 0],
     [balance |-> 10000 * MoneyScale, locked |-> 6000 * MoneyScale]}
TrCoinInputs ==
    {[balance |-> 0, locked |-> 0],
     [balance |-> 100000, locked |-> 0],
     [balance |-> 500000000, locked |-> 0],
     [balance |-> 500000000, locked |-> 100000000]}

TrInputs ==
    [kind : {"call"}, prices : TrPriceInputs,
     weights : {WeightsOf([trend |-> FxOne]), FallbackWeights},
     threshold : {FxCenti(20)}, krw : TrKrwInputs, coin : TrCoinInputs]

\* an order row and two trade rows of an earlier invocation
EarlierOrder ==
    [id |-> 1, side |-> "buy", price |-> 2000 * MoneyScale, quantity |-> 100000000,
     status |-> "new", exchange_order_id |-> "u0"]
EarlierTrades == {[order_id |-> 1, n |-> 1], [order_id |-> 1, n |-> 2]}

TrInit ==
    /\ trPc = "start"
    /\ trIn \in TrInputs
    /\ trOrder = NoOrder
    /\ exOrders = <<>>
    /\ \/ dbOrders = {} /\ dbTrades = {}
       \/ dbOrders = {EarlierOrder} /\ dbTrades = EarlierTrades
    /\ txRows = {}
    /\ trFills = <<>>
    /\ trOut = [kind |-> "none"]

trFrame == <<nonLiveVars, colVars, chVars>>

\* the balance taken as available whatever is locked
_parse_available_balance_free(entry) == entry.balance

\* _parse_available_balance: max(0.0, free - locked) of the currency's entry
_parse_available_balance(entry) == Max2(0, entry.balance - entry.locked)

\* _execute_buy up to the order: NoOrder where it returns None
BuyOrder(last_price, aggr) ==
    LET balance      == _parse_available_balance(trIn.krw)
        target_price == BuyTargetPrice(last_price, aggr)
        volume       == BuyVolume(balance, target_price, 5, 5)
    IN  IF balance <= MinOrderKrw THEN NoOrder
        ELSE IF volume <= 0 THEN NoOrder
        ELSE IF PriceTimesQty(target_price, volume) <= MinOrderKrw THEN NoOrder
        ELSE [side |-> "buy", price |-> target_price, volume |-> volume]

\* _execute_sell up to the order: NoOrder where it returns None
SellOrder(last_price, aggr) ==
    LET balance      == _parse_available_balance(trIn.coin)
        target_price == SellTargetPrice(last_price, aggr)
    IN  IF balance <= 0 THEN NoOrder
        ELSE IF PriceTimesQty(target_price, balance) <= MinOrderKrw THEN NoOrder
        ELSE [side |-> "sell", price |-> target_price, volume |-> balance]

\* the order run_trade decides on from what it read (aggressiveness 0.0015)
run_trade_order ==
    LET prices == trIn.prices
    IN  IF Len(prices) < MinPrices THEN NoOrder
        ELSE LET last_price == prices[Len(prices)] * MoneyScale
                 score      == ensemble_signal(prices, trIn.weights)
             IN  IF ~FxLt(score, trIn.threshold) THEN BuyOrder(last_price, 15)
                 ELSE IF ~FxLt(FxNeg(trIn.threshold), score) THEN SellOrder(last_price, 15)
                 ELSE NoOrder

\* what connection.rollback() leaves of the open transaction's rows
RolledBack_kept(tx) == tx

\* connection.rollback()
RolledBack(tx) == {}

\* an exception at the named call: the except block rolls back and re-raises
Fails(at) ==
    /\ trPc' = "raised"
    /\ trOut' = [kind |-> "raised", at |-> at]
    /\ txRows' = RolledBack(txRows)
    /\ UNCHANGED <<trIn, trOrder, exOrders, dbOrders, dbTrades, trFills>>

\* run_trade up to the order call: it returns None, has an order to place,
\* or a read (prices, weights, balances) raises
Decide ==
    /\ trPc = "start"
    /\ \/ /\ trOrder' = run_trade_order
          /\ IF trOrder' = NoOrder
             THEN trPc' = "returned" /\ trOut' = [kind |-> "none_returned"]
             ELSE trPc' = "ordering" /\ trOut' = trOut
          /\ UNCHANGED <<trIn, exOrders, dbOrders, dbTrades, txRows, trFills>>
       \/ Fails("read")
    /\ UNCHANGED trFrame

\* place_buy_limit / place_sell_limit: the exchange accepts the order and
\* answers with or without a uuid, or the call raises
PlaceOrder ==
    /\ trPc = "ordering"
    /\ \/ \E uuid \in {"u1", "none"} :
             /\ exOrders' = Append(exOrders, trOrder)
             /\ trOrder' = trOrder @@ [uuid |-> uuid]
             /\ trPc' = "placed"
             /\ UNCHANGED <<trIn, dbOrders, dbTrades, txRows, trFills, trOut>>
       \/ Fails("place_order")
    /\ UNCHANGED trFrame

\* the row insert_order writes
OrderRow ==
    [id |-> Cardinality(dbOrders) + 1, side |-> trOrder.side, price |-> trOrder.price,
     quantity |-> trOrder.volume, status |-> "new", exchange_order_id |-> trOrder.uuid]

\* insert_order
InsertOrder ==
    /\ trPc = "placed"
    /\ \/ /\ txRows' = {OrderRow}
          /\ trPc' = "order_inserted"
          /\ UNCHANGED <<trIn, trOrder, exOrders, dbOrders, dbTrades, trFills, trOut>>
       \/ Fails("insert_order")
    /\ UNCHANGED trFrame

\* the first connection.commit(); without a uuid the trades are skipped
CommitOrder ==
    /\ trPc = "order_inserted"
    /\ \/ /\ dbOrders' = dbOrders \cup txRows
          /\ txRows' = {}
          /\ trPc' = IF trOrder.uuid # "none" THEN "order_committed" ELSE "trades"
          /\ UNCHANGED <<trIn, trOrder, exOrders, dbTrades, trFills, trOut>>
       \/ Fails("commit_order")
    /\ UNCHANGED trFrame

\* fetch_order: the trades of the order so far
FetchOrder ==
    /\ trPc = "order_committed"
    /\ \/ \E n \in 0..MaxFills :
             /\ trFills' = [k \in 1..n |-> [order_id |-> Cardinality(dbOrders), n |-> k]]
             /\ trPc' = "trades"
             /\ UNCHANGED <<trIn, trOrder, exOrders, dbOrders, dbTrades, txRows, trOut>>
       \/ Fails("fetch_order")
    /\ UNCHANGED trFrame

\* one round of the loop over the trades: _serialize_trade and insert_trade
InsertTrade ==
    /\ trPc = "trades"
    /\ trFills # <<>>
    /\ \/ /\ txRows' = txRows \cup {Head(trFills)}
          /\ trFills' = Tail(trFills)
          /\ UNCHANGED <<trPc, trIn, trOrder, exOrders, dbOrders, dbTrades, trOut>>
       \/ Fails("insert_trade")
    /\ UNCHANGED trFrame

\* the second connection.commit(), then the dict is returned
CommitTrades ==
    /\ trPc = "trades"
    /\ trFills = <<>>
    /\ \/ /\ dbTrades' = dbTrades \cup txRows
          /\ txRows' = {}
          /\ trPc' = "returned"
          /\ trOut' = [kind |-> "executed", side |-> trOrder.side]
          /\ UNCHANGED <<trIn, trOrder, exOrders, dbOrders, trFills>>
       \/ Fails("commit_trades")
    /\ UNCHANGED trFrame

TrNext ==
    \/ Decide
    \/ PlaceOrder
    \/ InsertOrder
    \/ CommitOrder
    \/ FetchOrder
    \/ InsertTrade
    \/ CommitTrades

-----------------------------------------------------------------------------
(* Specifications                                                          *)

TrSpecInit ==
    TrInit /\ GridIdle /\ DbIdle /\ OptIdle /\ BtIdle /\ SgIdle /\ TkIdle /\ CfgIdle /\ BuyIdle
        /\ ColIdle /\ ChIdle
SpecTrade == TrSpecInit /\ [][TrNext]_vars

ChSpecInit ==
    ChIdle /\ GridIdle /\ DbIdle /\ OptIdle /\ BtIdle /\ SgIdle /\ TkIdle /\ CfgIdle /\ BuyIdle
        /\ ColIdle /\ TrIdle
SpecChain == ChSpecInit /\ [][ChNext]_vars

ColSpecInit ==
    ColInit /\ GridIdle /\ DbIdle /\ OptIdle /\ BtIdle /\ SgIdle /\ TkIdle /\ CfgIdle /\ BuyIdle
        /\ ChIdle /\ TrIdle
SpecCollect == ColSpecInit /\ [][ColNext]_vars

GridSpecInit == GridInit /\ DbIdle /\ OptIdle /\ BtIdle /\ SgIdle /\ TkIdle /\ CfgIdle /\ BuyIdle /\ LiveIdle
SpecGrid == GridSpecInit /\ [][GridNext]_vars

DbSpecInit == DbInit /\ GridIdle /\ OptIdle /\ BtIdle /\ SgIdle /\ TkIdle /\ CfgIdle /\ BuyIdle /\ LiveIdle
SpecDb == DbSpecInit /\ [][DbNext]_vars

SpecOpt == OptInit /\ [][OptNext]_vars

RankSpecInit == RankInit /\ GridIdle /\ DbIdle /\ BtIdle /\ SgIdle /\ TkIdle /\ CfgIdle /\ BuyIdle /\ LiveIdle
SpecRank == RankSpecInit /\ [][RankNext]_vars

BtSpecInit == BtInit /\ GridIdle /\ DbIdle /\ OptIdle /\ SgIdle /\ TkIdle /\ CfgIdle /\ BuyIdle /\ LiveIdle
SpecBacktest == BtSpecInit /\ [][BtNext]_vars

SgSpecInit == SgInit /\ GridIdle /\ DbIdle /\ OptIdle /\ BtIdle /\ TkIdle /\ CfgIdle /\ BuyIdle /\ LiveIdle
SpecSignal == SgSpecInit /\ [][SgNext]_vars

\* backtests of the longest candle lists, run MaxRuns times, then MaxCalls calls
\* of ensemble_signal on the closes and weights of the backtest
RepeatInit ==
    /\ BtInit
    /\ Len(candles) >= MaxCandles
    /\ window \in {3, 20}
    /\ initial_cash > MinOrderKrw
    /\ early_stop_candles = 4
    /\ sgCalls = 0
    /\ sgPrices = [k \in DOMAIN candles |-> candles[k].close]
    /\ sgWeights = weights
    /\ sgVotes = NoVotes
    /\ sgScore = FxZero
    /\ sgFirstScore = FxZero
    /\ GridIdle /\ DbIdle /\ OptIdle /\ TkIdle /\ CfgIdle /\ BuyIdle /\ LiveIdle

\* ensemble_signal on the closes, once the backtests have returned
ScoreCloses ==
    /\ btPc = "returned"
    /\ btRun + 1 >= MaxRuns
    /\ EnsembleSignal

RepeatNext ==
    \/ BacktestStep
    \/ BacktestFinish
    \/ BacktestAgain
    \/ ScoreCloses

SpecRepeat == RepeatInit /\ [][RepeatNext]_vars

SpecPool == PoolInit /\ [][PoolNext]_vars

SpecFine == FineInit /\ [][StartFine]_vars

BuySpecInit ==
    BuyInit /\ GridIdle /\ DbIdle /\ OptIdle /\ BtIdle /\ SgIdle /\ TkIdle /\ CfgIdle /\ LiveIdle
SpecBuy == BuySpecInit /\ [][BuyNext]_vars

CfgSpecInit == CfgInit /\ GridIdle /\ DbIdle /\ OptIdle /\ BtIdle /\ SgIdle /\ TkIdle /\ BuyIdle /\ LiveIdle
SpecThresholds == CfgSpecInit /\ [][CfgNext]_vars

TkSpecInit == TkInit /\ GridIdle /\ DbIdle /\ OptIdle /\ BtIdle /\ SgIdle /\ CfgIdle /\ BuyIdle /\ LiveIdle
SpecTick == TkSpecInit /\ [][TkNext]_vars

-----------------------------------------------------------------------------
(* Claims                                                                  *)

\* C1: every weight vector emitted by stage 1 (for any configured step) and by
\* stage 2 (for any base vector summing to 1 and any fine step) sums to 1.0
\* within 1e-6.
C1_WeightsSumToOne ==
    /\ \A n \in 1..Len(candidates) : SumsToOne(candidates[n])
    /\ \A n \in 1..Len(neighbors) : SumsToOne(neighbors[n])

\* a stage-2 batch whose vectors were changed by the rounding to 10 decimals,
\* generated from a stage-1 grid with more keys than top_k
C1_Witness ==
    /\ gPc = "fine"
    /\ Len(strategyKeys) > TopK
    /\ Len(neighbors) > 0
    /\ \E n \in 1..Len(neighbors) : \E k \in DOMAIN baseWeights :
          neighbors[n][k].lo % 100 = 0 /\ baseWeights[k].lo % 100 # 0

-----------------------------------------------------------------------------
\* every save_optimizer_result call that has started has ended
AllSavesEnded == \A t \in Txns : txPc[t] \in {"idle", "done", "failed"}

\* C3: after any interleaving of concurrent save_optimizer_result(mark_best=True)
\* transactions, also when no row is flagged best at the start, at most one
\* row has is_best = TRUE once all of them have committed.
C3_AtMostOneBest == AllSavesEnded => Cardinality(BestIds(rows)) <= 1

-----------------------------------------------------------------------------
\* C6: a save_optimizer_result(mark_best=True) that fails after clearing the
\* prior best flag and before its insert commits leaves no row of its own, and
\* (no other call having run) the rows flagged best are those flagged before
\* the call: reset and insert take effect together or not at all.
C6_FailedSaveKeepsBest ==
    \A t \in Txns :
        txPc[t] = "failed" =>
            /\ \A id \in DOMAIN rows : rows[id].by # t
            /\ (\A u \in Txns \ {t} : txPc[u] = "idle") => BestIds(rows) = txBestBefore[t]

\* a call that found a best row, cleared its flag and then failed at the insert
\* or at the commit, with no other call running
C6_Witness ==
    \E t \in Txns :
        /\ txPc[t] = "failed"
        /\ txMarkBest[t]
        /\ txFailedAt[t] \in {"insert", "commit"}
        /\ txBestBefore[t] # {}
        /\ \A u \in Txns \ {t} : txPc[u] = "idle"

-----------------------------------------------------------------------------
\* the edges of the cycle's state machine, and the ways a cycle ends early
ChainEdges ==
    {<<"IDLE", "COARSE_RUNNING">>, <<"COARSE_RUNNING", "COARSE_DONE">>,
     <<"COARSE_DONE", "FINE_RUNNING">>, <<"FINE_RUNNING", "FINE_DONE">>,
     <<"FINE_DONE", "PERSISTED">>}

ExitEdges ==
    {<<"IDLE", "RETURNED">>, <<"COARSE_DONE", "RETURNED">>,
     <<"COARSE_RUNNING", "FAILED">>, <<"FINE_RUNNING", "FAILED">>, <<"FINE_DONE", "FAILED">>}

AllDone(stage) == \A i \in StageTasks(stage) : tasks[i].state = "done"

\* C4: a cycle moves only along IDLE -> COARSE_RUNNING -> COARSE_DONE ->
\* FINE_RUNNING -> FINE_DONE -> PERSISTED (or ends early); no fine-stage
\* backtest starts before every coarse-stage backtest has returned its result,
\* and the save happens only after every fine-stage backtest has returned.
C4_StagesInOrder ==
    /\ [][oPhase' # oPhase => <<oPhase, oPhase'>> \in ChainEdges \cup ExitEdges]_vars
    /\ []((StageTasks("fine") # {}) => AllDone("coarse") /\ coarseResults = StageResults("coarse"))
    /\ [](saveCalls # <<>> => AllDone("coarse") /\ AllDone("fine")
                               /\ fineResults = StageResults("fine"))

\* a persisted cycle whose two stages both ran backtests on a pool of two workers
C4_Witness ==
    /\ oPhase = "PERSISTED"
    /\ maxWorkers = 2
    /\ Cardinality(StageTasks("coarse")) >= 2
    /\ Cardinality(StageTasks("fine")) >= 2

-----------------------------------------------------------------------------
SomeRaised == \E i \in DOMAIN tasks : tasks[i].state = "raised"

\* C5: if a backtest evaluation raises (coarse or fine stage), the cycle ends
\* failed, nothing is retried, save_optimizer_result is never called and the
\* persisted best result is unchanged.
C5_RaiseAbortsCycle ==
    /\ \A i \in DOMAIN tasks : tasks[i].runs <= 1
    /\ SomeRaised =>
          /\ oPhase \in {"COARSE_RUNNING", "FINE_RUNNING", "FAILED"}
          /\ (~ENABLED OptNext) => oPhase = "FAILED"
          /\ saveCalls = <<>>
          /\ rows \in InitialTables

\* a failed cycle whose fine stage raised, with a best row from an earlier cycle
C5_Witness ==
    /\ oPhase = "FAILED"
    /\ \E i \in StageTasks("fine") : tasks[i].state = "raised"
    /\ BestIds(rows) # {}

-----------------------------------------------------------------------------
AllResults == coarseResults \o fineResults

\* the (metrics, params) pair of the last save_optimizer_result call
Saved == [metrics |-> saveCalls[Len(saveCalls)].metrics,
          params |-> saveCalls[Len(saveCalls)].params]

\* C7: the result persisted by a completed cycle is a maximum of the merged
\* coarse + fine results under (total_return, sharpe): no evaluated result has
\* a higher total_return, nor an equal total_return and a higher sharpe.
C7_WinnerIsMaximum ==
    oPhase = "PERSISTED" =>
        /\ Saved \in Range(AllResults)
        /\ \A r \in Range(AllResults) :
              /\ r.metrics.total_return <= Saved.metrics.total_return
              /\ r.metrics.total_return = Saved.metrics.total_return
                    => r.metrics.sharpe <= Saved.metrics.sharpe

\* a persisted cycle with three results A > B > C in which A is not the first
\* result and a result with A's total_return comes before it
C7_Witness ==
    /\ oPhase = "PERSISTED"
    /\ \E a, b, c \in DOMAIN AllResults :
          /\ KeyLt(RankKey(AllResults[c]), RankKey(AllResults[b]))
          /\ KeyLt(RankKey(AllResults[b]), RankKey(AllResults[a]))
          /\ b < a
          /\ AllResults[b].metrics.total_return = AllResults[a].metrics.total_return
          /\ Saved = AllResults[a]

-----------------------------------------------------------------------------
\* the list `results` rearranged by the permutation perm of its indices
Permuted(results, perm) == [i \in DOMAIN results |-> results[perm[i]]]

\* C8: the final selection is order-independent: for every permutation of the
\* evaluated results (including results that tie on total_return and sharpe)
\* the persisted winner, metrics and params, is the same.
C8_OrderIndependent ==
    oPhase = "PERSISTED" =>
        \A perm \in Orderings(DOMAIN AllResults) : PyMax(Permuted(AllResults, perm)) = Saved

-----------------------------------------------------------------------------
\* the coarse results that are not among the seeds
NotSeeded == Range(coarseResults) \ Range(topResults)

\* C9: the number of coarse results that seed stage 2 is
\* max(1, min(50, floor(len(coarse_results) * top_percent))), and every seeded
\* result ranks at least as high under (total_return, sharpe) as every coarse
\* result that is not seeded.
C9_SeedsAreTheTop ==
    rPc = "selected" =>
        LET floor == (Len(coarseResults) * topPercent) \div 100
            want  == IF floor < 1 THEN 1 ELSE IF floor > 50 THEN 50 ELSE floor
        IN  /\ Len(topResults) = want
            /\ Range(topResults) \subseteq Range(coarseResults)
            /\ \A s \in Range(topResults) : \A u \in NotSeeded : ~KeyLt(RankKey(s), RankKey(u))

\* a selection in which the cap of 50 decides the number of seeds, and the
\* seeds are cut from a list that was not sorted
C9_Witness ==
    /\ rPc = "selected"
    /\ (Len(coarseResults) * topPercent) \div 100 > 50
    /\ Len(topResults) = 50
    /\ \E i \in DOMAIN coarseResults :
          i < Len(coarseResults) /\ KeyLt(RankKey(coarseResults[i]), RankKey(coarseResults[i + 1]))

-----------------------------------------------------------------------------
\* prices no candle of the model-checked series has
AltPrices == {1000, 3000}

\* the candle lists that are cs up to candle i and something else after it
FuturesOf(cs, i) ==
    {[k \in DOMAIN cs |-> IF k <= i + 1 THEN cs[k] ELSE [open |-> o, close |-> c]] :
        o \in AltPrices, c \in AltPrices}

\* the last iteration computed the signal
Decided == lastStep.kind \in {"buy", "no_buy", "sell", "no_sell", "hold"}

\* C2: the score of step i is the same whatever the candles after candle i
\* are (the signal reads no close of a candle j > i), and the order price of
\* a trade decided at step i is the open of candle i + 1, moved by the
\* aggressiveness and rounded to the tick, and nothing else.
C2_NoLookahead ==
    /\ Decided =>
          \A f \in FuturesOf(candles, lastStep.i) :
              ScoreAt(f, lastStep.i, weights, EffectiveWindow(window, Len(candles)))
                  = lastStep.score
    /\ lastStep.kind = "buy" =>
          lastStep.target_price
              = BuyTargetPrice(Candle(lastStep.i + 1).open * MoneyScale, aggressiveness)
    /\ lastStep.kind = "sell" =>
          lastStep.target_price
              = SellTargetPrice(Candle(lastStep.i + 1).open * MoneyScale, aggressiveness)

\* a buy decided on closes that rose, filled at the open of a candle that
\* closes lower: the close of candle i + 1 would have changed the signal
C2_Witness ==
    /\ lastStep.kind = "buy"
    /\ Candle(lastStep.i).close > Candle(lastStep.i - 1).close
    /\ Candle(lastStep.i + 1).close < Candle(lastStep.i).close
    /\ Candle(lastStep.i + 1).open # Candle(lastStep.i + 1).close

-----------------------------------------------------------------------------
\* the equity at which the cumulative return equals early_stop_threshold
StopLevel == (initial_cash \div 100) * (100 + early_stop_threshold)

\* the cumulative return was below the threshold at a step before
\* early_stop_candles
DroppedBefore ==
    \E k \in DOMAIN equity_curve : k - 1 < early_stop_candles /\ equity_curve[k] < StopLevel

\* _backtest has returned the early-stop record
StoppedEarly ==
    /\ btPc = "returned"
    /\ btResult.sharpe = SharpeStopped
    /\ btResult.max_drawdown = RetScale

-----------------------------------------------------------------------------
\* all prices of the list are equal
IsFlat(ps) == \A k \in DOMAIN ps : ps[k] = ps[1]

\* C11: on a price list whose prices are all equal every strategy votes 0,
\* and the ensemble score is 0 whatever the weights.
C11_FlatVotesZero ==
    (sgCalls >= 1 /\ IsFlat(sgPrices)) =>
        /\ \A k \in DOMAIN sgVotes : sgVotes[k] = 0
        /\ sgScore = FxZero

-----------------------------------------------------------------------------
\* every candle opens and closes at one and the same price
FlatCandles == \A k \in DOMAIN candles : candles[k].open = candles[1].close
                                      /\ candles[k].close = candles[1].close

\* C12: a backtest over a series of one constant price executes no trade, for
\* any weights and any threshold in (0, 1], and returns num_trades = 0,
\* total_return = 0.0 and max_drawdown = 0.0.
C12_FlatSeriesNoTrade ==
    (btPc \in {"loop", "returned"} /\ FlatCandles /\ FxLt(FxZero, threshold)
        /\ ~FxLt(FxOne, threshold)) =>
        /\ total_trades = 0
        /\ btPc = "returned" =>
              /\ btResult.num_trades = 0
              /\ btResult.total_return = 0
              /\ btResult.max_drawdown = 0

-----------------------------------------------------------------------------
\* the closes are strictly increasing
RisingCloses == \A k \in 1..(Len(candles) - 1) : candles[k].close < candles[k + 1].close

\* a backtest of the rising scenario: weights {trend: 1.0}, threshold 0.5
RisingCase ==
    /\ btPc \in {"loop", "returned"}
    /\ RisingCloses
    /\ weights = WeightsOf([trend |-> FxOne])
    /\ threshold = FxCenti(50)

\* the first step at which the window is satisfied, and the order a buy at
\* that step places with the initial cash
FirstStep == EffectiveWindow(window, Len(candles)) - 1
FirstBuyPrice == BuyTargetPrice(ExecPrice(candles, FirstStep), aggressiveness)
FirstBuySpend ==
    PriceTimesQty(FirstBuyPrice, BuyVolume(initial_cash, FirstBuyPrice, fee_rate, fee_buffer))
FirstBuyLeft == initial_cash - (FirstBuySpend + TimesRate(FirstBuySpend, fee_rate))

-----------------------------------------------------------------------------
\* C14: a step of the backtest raises the position only with cash > 5000 and
\* target_price * volume > 5000, lowers it only with
\* target_price * coin_qty > 5000, changes cash, position and trade count
\* together or not at all, and with initial_cash = 5000 changes none of them.
C14_MinNotionalGate ==
    [][btPc = "loop" =>
          /\ coin_qty' > coin_qty =>
                /\ cash_krw > 5000 * MoneyScale
                /\ lastStep'.kind = "buy"
                /\ coin_qty' = coin_qty + lastStep'.volume
                /\ PriceTimesQty(lastStep'.target_price, lastStep'.volume) > 5000 * MoneyScale
          /\ coin_qty' < coin_qty =>
                /\ lastStep'.kind = "sell"
                /\ coin_qty' = 0
                /\ PriceTimesQty(lastStep'.target_price, coin_qty) > 5000 * MoneyScale
          /\ coin_qty' = coin_qty => (cash_krw' = cash_krw /\ total_trades' = total_trades)
          /\ initial_cash = 5000 * MoneyScale =>
                (cash_krw' = initial_cash /\ coin_qty' = 0 /\ total_trades' = 0)]_vars

\* a position bought through the gate whose sale the gate then blocks
C14_Witness ==
    /\ lastStep.kind = "no_sell"
    /\ coin_qty > 0
    /\ total_trades = 1
    /\ PriceTimesQty(SellTargetPrice(ExecPrice(candles, lastStep.i), aggressiveness), coin_qty)
           <= 5000 * MoneyScale

-----------------------------------------------------------------------------
\* C15: round_price_to_tick(p, "up") >= p, round_price_to_tick(p, "down") <= p,
\* and a second application to the rounded price returns the rounded price.
C15_RoundingBoundsAndIdempotent ==
    /\ Len(tkRounded) >= 1 =>
          /\ tkMode = "up" => tkRounded[1] >= tkPrice
          /\ tkMode = "down" => tkRounded[1] <= tkPrice
    /\ Len(tkRounded) = 2 => tkRounded[2] = tkRounded[1]

-----------------------------------------------------------------------------
RECURSIVE Compositions(_, _)
\* the lists of n non-negative integers that sum to u
Compositions(n, u) ==
    IF n = 1 THEN {<<u>>}
    ELSE UNION {{Append(c, last) : c \in Compositions(n - 1, u - last)} : last \in 0..u}

RECURSIVE Binomial(_, _)
Binomial(n, k) ==
    IF k = 0 \/ k = n THEN 1
    ELSE IF k < 0 \/ k > n THEN 0
    ELSE Binomial(n - 1, k - 1) + Binomial(n - 1, k)

\* the units of the stage-1 grid: round(1 / step) of the step in effect
GridUnits == RoundedUnits(EffectiveStepCenti(coarseStep))

\* C16: the stage-1 grid lists, without repetition, exactly the weight
\* vectors x / units of the compositions x of units over the keys, which
\* makes C(units + N - 1, N - 1) candidates; for two keys and step 0.5 these
\* are (0, 1), (0.5, 0.5) and (1, 0).
C16_GridIsEveryComposition ==
    gPc = "coarse" =>
        LET N == Len(strategyKeys)
            listed == {candidates[n] : n \in DOMAIN candidates}
        IN  /\ listed = {[k \in 1..N |-> FxRatio(x[k], GridUnits)] : x \in Compositions(N, GridUnits)}
            /\ Cardinality(listed) = Len(candidates)
            /\ Len(candidates) = Binomial(GridUnits + N - 1, N - 1)
            /\ (N = 2 /\ coarseStep = [num |-> TRUE, c |-> 50]) =>
                  listed = {<<FxZero, FxOne>>, <<FxCenti(50), FxCenti(50)>>, <<FxOne, FxZero>>}

\* the grid of two keys and step 0.5
C16_Witness ==
    /\ gPc = "coarse"
    /\ Len(strategyKeys) = 2
    /\ coarseStep = [num |-> TRUE, c |-> 50]
    /\ Len(candidates) = 3

-----------------------------------------------------------------------------
\* C17: the score of a call is the sum, over the strategies of the table that
\* are keys of weights, of weight times vote; the other keys of weights and
\* the other strategies add nothing, and the call returns for every weights
\* dict.
C17_ScoreIsWeightedVoteSum ==
    sgCalls >= 1 =>
        sgScore = FxSum([n \in 1..Len(STRATEGY_KEYS) |->
                            IF STRATEGY_KEYS[n] \in DOMAIN sgWeights
                            THEN FxTimesVote(sgWeights[STRATEGY_KEYS[n]], sgVotes[STRATEGY_KEYS[n]])
                            ELSE FxZero])

\* a call with a key that is no strategy and without weights for strategies
\* that vote
C17_Witness ==
    /\ sgCalls >= 1
    /\ "sentiment" \in DOMAIN sgWeights
    /\ "momentum" \notin DOMAIN sgWeights
    /\ sgVotes.momentum = 1
    /\ sgVotes.trend = 1
    /\ sgScore = FxCenti(50)

-----------------------------------------------------------------------------
\* the shortest price list each strategy votes on
Lookback ==
    [trend |-> 2, momentum |-> 11, swing |-> 20, scalping |-> 11, day |-> 20,
     price_action |-> 3, rsi |-> 15, bollinger |-> 20, macd |-> 45]

\* C18: a call on a price list of one or more prices gets a vote of -1, 0 or
\* +1 from each of the nine strategies, and 0 from every strategy whose
\* lookback is longer than the list.
C18_VotesAreSignsAndNeutralWhenShort ==
    sgCalls >= 1 =>
        /\ DOMAIN sgVotes = Range(STRATEGY_KEYS)
        /\ \A k \in DOMAIN sgVotes :
              /\ sgVotes[k] \in {-1, 0, 1}
              /\ Len(sgPrices) < Lookback[k] => sgVotes[k] = 0

\* a list of 20 prices: swing, day and bollinger vote with exactly their
\* lookback, macd has too few prices
C18_Witness ==
    /\ sgCalls >= 1
    /\ Len(sgPrices) = 20
    /\ sgVotes.swing # 0
    /\ sgVotes.day # 0
    /\ sgVotes.bollinger # 0
    /\ sgVotes.macd = 0

-----------------------------------------------------------------------------
-----------------------------------------------------------------------------
\* the rows of optimizer_results written by the cycle
RowsOfCycle == {id \in DOMAIN rows : rows[id].by = 1}

\* the call is made with a maximum of the evaluated results and mark_best = True
SavesWinner(call) ==
    /\ call.mark_best = TRUE
    /\ [metrics |-> call.metrics, params |-> call.params] \in Range(AllResults)
    /\ \A r \in Range(AllResults) : ~KeyLt(RankKey(call), RankKey(r))

\* C20 as stated: a completed cycle has called save_optimizer_result exactly
\* once, with the winner and mark_best = True, and has persisted that one
\* result; a cycle that is not completed has called it zero times.
C20_SavedOnceIffCompleted ==
    /\ oPhase = "PERSISTED" =>
          /\ Len(saveCalls) = 1
          /\ SavesWinner(saveCalls[1])
          /\ RowsOfCycle = {Len(rows)}
    /\ oPhase # "PERSISTED" => saveCalls = <<>>

\* C20: a completed cycle has called save_optimizer_result exactly once, with
\* the winner and mark_best = True, and has persisted that one result as the
\* only best row; a cycle that returned early, or in which an evaluation
\* raised, or that has not reached the save, has called it zero times; a
\* cycle that called it and is not completed is the cycle whose one call,
\* made with the winner, raised, and it has persisted nothing.
C20_SavedOnceWhenReached ==
    /\ Len(saveCalls) <= 1
    /\ oPhase = "PERSISTED" =>
          /\ Len(saveCalls) = 1
          /\ SavesWinner(saveCalls[1])
          /\ RowsOfCycle = {Len(rows)}
          /\ BestIds(rows) = {Len(rows)}
    /\ (oPhase \notin {"PERSISTED", "FAILED"} \/ SomeRaised) => saveCalls = <<>>
    /\ (oPhase # "PERSISTED" /\ saveCalls # <<>>) =>
          /\ oPhase = "FAILED"
          /\ SavesWinner(saveCalls[1])
          /\ RowsOfCycle = {}
          /\ rows \in InitialTables

\* a completed cycle that evaluated several results in both stages and added
\* its winner to a table that had a best row
C20_Witness ==
    /\ oPhase = "PERSISTED"
    /\ Len(coarseResults) >= 2
    /\ Len(fineResults) >= 2
    /\ Len(saveCalls) = 1
    /\ Len(rows) >= 2
    /\ \E r \in Range(AllResults) : KeyLt(RankKey(r), RankKey(saveCalls[1]))

-----------------------------------------------------------------------------
\* C21: a cycle whose load_ohlcv returned fewer than 200 candles submits no
\* backtest, never calls save_optimizer_result, leaves optimizer_results as
\* it was, and ends returned, not failed.
C21_FewCandlesIsNoOp ==
    /\ [](numCandles < 200 =>
             /\ oPhase \in {"IDLE", "RETURNED"}
             /\ tasks = <<>>
             /\ saveCalls = <<>>
             /\ coarseResults = <<>> /\ fineResults = <<>>
             /\ (~ENABLED OptNext) => oPhase = "RETURNED")
    /\ [][numCandles < 200 => rows' = rows]_vars

\* a cycle with 199 candles that returned, the table holding an earlier best row
C21_Witness ==
    /\ numCandles = 199
    /\ oPhase = "RETURNED"
    /\ BestIds(rows) # {}

-----------------------------------------------------------------------------
\* the configured string holds no threshold value: no character but blanks
\* and commas
NoThresholdValue(str) == \A k \in DOMAIN str : str[k] \in {" ", ","}

\* C22: for a configured string that holds no threshold value,
\* _generate_threshold_candidates returns the default ladder 0.05 .. 0.5.
C22_NoValueGivesDefaults ==
    (cfgThresholds.kind \notin {"off", "none"} /\ NoThresholdValue(cfgRaw)) =>
        /\ cfgThresholds.kind = "list"
        /\ cfgThresholds.list = DefaultThresholds

-----------------------------------------------------------------------------
\* the configured coarse step is a number in (0, 1]
CoarseStepValid == coarseStep.num /\ coarseStep.c > 0 /\ coarseStep.c <= 100
\* the configured fine step is in (0, 1]
FineStepValid == FxLt(FxZero, fineStep) /\ ~FxLt(FxOne, fineStep)

\* the steps a generator could fall back to: the 0.1 of _generate_weight_grid
\* and the configuration defaults 0.05 (fine) and 0.2 (coarse)
FallbackSteps == {FxCenti(10), FxCenti(5), FxCenti(20)}

\* C23: with a configured step outside (0, 1] the stage-1 grid is the grid of
\* the default step 0.1, and the neighbors of stage 2 are those of a default
\* step, not of the configured value.
C23_InvalidStepFallsBack ==
    /\ (gPc = "coarse" /\ ~CoarseStepValid) =>
          candidates = _generate_weight_grid([num |-> TRUE, c |-> DefaultStepCenti], strategyKeys)
    /\ (gPc = "fine" /\ ~FineStepValid) =>
          \E d \in FallbackSteps : neighbors = _generate_neighbor_weights(baseWeights, d, TopK)

-----------------------------------------------------------------------------
\* the (metrics, params) pairs of the param list evaluated one after the other
SequentialResults ==
    [n \in DOMAIN PoolParams |->
        [metrics |-> _backtest([ArgsNow EXCEPT !.weights = PoolParams[n].weights,
                                               !.threshold = PoolParams[n].threshold]),
         params  |-> PoolParams[n]]]

\* C24: whatever the pool size and the interleaving of the worker threads,
\* every pair of the stage's parameter list is evaluated once, each result
\* has the metrics of its own params, the results the stage returns are those
\* of evaluating the list sequentially, and the candle list is the one every
\* call was handed.
C24_PoolEqualsSequential ==
    /\ [](\A i \in DOMAIN tasks :
             /\ tasks[i].params = PoolParams[i]
             /\ tasks[i].runs <= 1
             /\ tasks[i].state = "done" =>
                   (tasks[i].runs = 1 /\ tasks[i].metrics = SequentialResults[i].metrics))
    /\ [](oPhase = "COARSE_DONE" => coarseResults = SequentialResults)
    /\ [](oPhase = "FINE_DONE" => fineResults = SequentialResults)
    /\ [][candles' = candles]_vars

\* a fine stage joined on two workers, with results that differ between the
\* params and a call that bought and sold
C24_Witness ==
    /\ oPhase = "FINE_DONE"
    /\ maxWorkers = 2
    /\ Len(fineResults) = Len(PoolParams)
    /\ \E i, j \in DOMAIN fineResults : fineResults[i].metrics # fineResults[j].metrics
    /\ \E i \in DOMAIN fineResults : fineResults[i].metrics.num_trades >= 2

-----------------------------------------------------------------------------
\* C25: an executed buy never overspends: its volume is at most
\* cash / (target_price * (1 + fee_rate + fee_buffer)), the amount paid
\* (spend + fee) is at most the cash held, and cash and position are not
\* negative afterwards, for every fee_rate >= 0 and fee_buffer >= 0.
C25_NoOverspending ==
    buyDone.kind = "bought" =>
        /\ ~FlLt(buyDone.raw_volume, buyDone.volume)
        /\ ~FlLt(buyDone.cash_before, buyDone.paid)
        /\ ~buyDone.cash_krw.neg
        /\ ~buyDone.coin_qty.neg

-----------------------------------------------------------------------------
InRanges(metrics) ==
    /\ metrics.max_drawdown >= 0 /\ metrics.max_drawdown <= RetScale
    /\ metrics.win_rate >= 0 /\ metrics.win_rate <= RetScale
    /\ metrics.num_trades >= 0

WinsOverTrades == IF total_trades > 0 THEN (win_trades * RetScale) \div total_trades ELSE 0

\* C26 as stated: every record returned, on normal completion and on early
\* stop, has max_drawdown and win_rate in [0,1] and num_trades >= 0, and its
\* win_rate is wins/trades, 0 when there are no trades.
C26_RangesAndWinRate ==
    btPc = "returned" =>
        /\ InRanges(btResult)
        /\ btResult.win_rate = WinsOverTrades

\* C26 as the code has it: every record returned has max_drawdown and win_rate
\* in [0,1] and num_trades >= 0 equal to the trades executed; on normal
\* completion win_rate is wins/trades (0 when there are no trades), on early
\* stop it is 0 whatever the wins and max_drawdown is 1.
C26_RangesAndWinRateOnCompletion ==
    btPc = "returned" =>
        /\ InRanges(btResult)
        /\ btResult.num_trades = total_trades
        /\ win_trades <= total_trades
        /\ IF lastStep.kind = "early_stop"
           THEN btResult.win_rate = 0 /\ btResult.max_drawdown = RetScale
           ELSE btResult.win_rate = WinsOverTrades

\* a backtest completed normally after a buy and a winning sell, with a fall
\* of its equity of more than half
C26_Witness ==
    /\ btPc = "returned"
    /\ lastStep.kind # "early_stop"
    /\ win_trades = 1 /\ total_trades = 2
    /\ btResult.win_rate = RetScale \div 2
    /\ btResult.max_drawdown > RetScale \div 2

-----------------------------------------------------------------------------
\* proceed = target_price * coin_qty of a sell at the step about to run
ProceedNow ==
    PriceTimesQty(SellTargetPrice(ExecPrice(candles, iStep), aggressiveness), coin_qty)

\* C27: the sell side is all-or-nothing. An executed sell leaves a position of
\* exactly 0, adds proceeds minus fee to cash and counts one trade; a sell
\* whose proceeds are <= 5000 changes neither cash nor position nor trade
\* count; no step lowers the position to an amount other than 0.
C27_SellAllOrNothing ==
    [][(btPc = "loop" /\ lastStep'.i = iStep) =>
          /\ lastStep'.kind = "sell" =>
                /\ coin_qty > 0
                /\ ProceedNow > 5000 * MoneyScale
                /\ coin_qty' = 0
                /\ cash_krw' = cash_krw + ProceedNow - TimesRate(ProceedNow, fee_rate)
                /\ total_trades' = total_trades + 1
          /\ (lastStep'.kind \in {"sell", "no_sell"} /\ ProceedNow <= 5000 * MoneyScale) =>
                /\ cash_krw' = cash_krw
                /\ coin_qty' = coin_qty
                /\ total_trades' = total_trades
          /\ coin_qty' < coin_qty => coin_qty' = 0]_vars

\* the whole position sold: a buy and a sell counted, nothing left
C27_Witness ==
    /\ lastStep.kind = "sell"
    /\ lastStep.volume > 0
    /\ coin_qty = 0
    /\ total_trades = 2
    /\ cash_krw = lastStep.cash + lastStep.amount - lastStep.fee

-----------------------------------------------------------------------------
\* the closes of candles[i + 1 - win .. i] (candle k of the source is
\* candles[k + 1])
WindowCloses(i, win) == [k \in 1..win |-> candles[i + 1 - win + k].close]

\* C28: with window = max(3, min(window, len(candles))), a step i with
\* i + 1 < window computes no signal and trades nothing, and a step that
\* computes the signal computes it on exactly the window closes of
\* candles[i + 1 - window .. i].
C28_NoSignalBeforeWindow ==
    [][(btPc = "loop" /\ lastStep'.i = iStep) =>
          LET win == IF window < Len(candles)
                     THEN (IF window < 3 THEN 3 ELSE window)
                     ELSE (IF Len(candles) < 3 THEN 3 ELSE Len(candles))
          IN  /\ iStep + 1 < win =>
                    /\ lastStep'.kind \in {"warmup", "early_stop"}
                    /\ cash_krw' = cash_krw /\ coin_qty' = coin_qty
                    /\ total_trades' = total_trades
              /\ lastStep'.kind \notin {"warmup", "early_stop"} =>
                    /\ iStep + 1 >= win
                    /\ Len(WindowCloses(iStep, win)) = win
                    /\ lastStep'.score = ensemble_signal(WindowCloses(iStep, win), weights)]_vars

\* the first signal of a backtest with a window of 20 on 22 candles, at step
\* 19, followed by a buy
C28_Witness ==
    /\ window = 20
    /\ Len(candles) = LongCandles
    /\ lastStep.i = 19
    /\ lastStep.kind = "buy"
    /\ total_trades = 1

-----------------------------------------------------------------------------
\* equity recorded by the step about to run, and its cumulative return
EquityNow == cash_krw + PriceTimesQty(candles[iStep + 2].close * MoneyScale, coin_qty)
ReturnNow == RatioPpm(EquityNow - initial_cash, initial_cash)

-----------------------------------------------------------------------------
\* the sets of three (or, of fewer keys, all) highest-weighted keys of w
TopSets(w) ==
    {T \in SUBSET DOMAIN w :
        /\ Cardinality(T) = Min2(3, Len(w))
        /\ \A a \in T : \A b \in DOMAIN w \ T : ~FxLt(w[a], w[b])}

\* moving step from key j to key i keeps both weights in [0,1]
StaysInUnit(w, i, j, step) == InUnit(FxAdd(w[i], step)) /\ InUnit(FxSub(w[j], step))

\* the base vector with step moved from key j to key i, as computed and
\* rounded to 10 decimals
Moved(w, i, j, step) == [w EXCEPT ![i] = FxAdd(w[i], step), ![j] = FxSub(w[j], step)]
MovedRounded(w, i, j, step) == [k \in DOMAIN w |-> FxRound10(Moved(w, i, j, step)[k])]

\* C30 as stated: every neighbor differs from the base vector in exactly two
\* keys, both among its three highest-weighted keys, one raised by fine_step
\* and one lowered by fine_step, every other key keeps its base weight, every
\* weight is in [0,1], and every transfer between two of the three keys that
\* stays in [0,1] is produced.
C30_NeighborsMoveOneStep ==
    gPc = "fine" =>
        \E T \in TopSets(baseWeights) :
            /\ \A n \in 1..Len(neighbors) :
                  /\ \E i, j \in T :
                        /\ i # j
                        /\ neighbors[n] = Moved(baseWeights, i, j, fineStep)
                        /\ neighbors[n][i] # baseWeights[i]
                        /\ neighbors[n][j] # baseWeights[j]
                  /\ \A k \in DOMAIN baseWeights : InUnit(neighbors[n][k])
            /\ \A i, j \in T :
                  (i # j /\ StaysInUnit(baseWeights, i, j, fineStep)) =>
                      \E n \in 1..Len(neighbors) :
                          neighbors[n] = Moved(baseWeights, i, j, fineStep)

\* C30 as the code has it: every neighbor is the base vector with fine_step
\* moved between two of its three highest-weighted keys, both moved weights
\* in [0,1], and then every weight rounded to 10 decimals; every weight of a
\* neighbor is in [0,1]; and every such transfer that stays in [0,1] is
\* produced.
C30_NeighborsMoveOneStepRounded ==
    gPc = "fine" =>
        \E T \in TopSets(baseWeights) :
            /\ \A n \in 1..Len(neighbors) :
                  /\ \E i, j \in T :
                        /\ i # j
                        /\ StaysInUnit(baseWeights, i, j, fineStep)
                        /\ neighbors[n] = MovedRounded(baseWeights, i, j, fineStep)
                  /\ \A k \in DOMAIN baseWeights : InUnit(neighbors[n][k])
            /\ \A i, j \in T :
                  (i # j /\ StaysInUnit(baseWeights, i, j, fineStep)) =>
                      \E n \in 1..Len(neighbors) :
                          neighbors[n] = MovedRounded(baseWeights, i, j, fineStep)

\* the neighbors of a vector of four keys with three positive weights: all six
\* transfers of 0.05 between the three, the fourth key left at 0
C30_Witness ==
    /\ gPc = "fine"
    /\ fineStep = FxCenti(5)
    /\ Len(baseWeights) = 4
    /\ Cardinality({k \in DOMAIN baseWeights : FxLt(FxZero, baseWeights[k])}) = 3
    /\ Cardinality({neighbors[n] : n \in 1..Len(neighbors)}) = 6
    /\ \A n \in 1..Len(neighbors) :
          Cardinality({k \in DOMAIN baseWeights : neighbors[n][k] # baseWeights[k]}) = 2

-----------------------------------------------------------------------------
\* the tasks of stage 2 with the given weights, and with the given pair
FineTasksOf(w) == {i \in StageTasks("fine") : tasks[i].params.weights = w}
FineTasksOfPair(w, th) == {i \in FineTasksOf(w) : tasks[i].params.threshold = th}

\* C31 as stated: each distinct neighbor of the seeded top results is in the
\* fine candidate list once, and no (weights, threshold) pair is backtested
\* more than once within stage 2.
C31_NoPairTwice ==
    oPhase = "FINE_RUNNING" =>
        /\ \A w \in FineCandidateSet(topResults, fineStep) : FineTasksOf(w) # {}
        /\ \A i, j \in StageTasks("fine") : tasks[i].params = tasks[j].params => i = j

\* C31 as the code has it: each distinct neighbor of the seeded top results
\* is in the fine candidate list once, and is crossed with the threshold
\* list: stage 2 has one task per candidate and position of the threshold
\* list, so a (weights, threshold) pair is backtested as many times as its
\* threshold occurs in the list, once when the thresholds are distinct.
C31_OneTaskPerCandidateAndThreshold ==
    oPhase = "FINE_RUNNING" =>
        LET fine_set == FineCandidateSet(topResults, fineStep)
        IN  /\ \A i \in StageTasks("fine") : tasks[i].params.weights \in fine_set
            /\ \A w \in fine_set :
                  /\ Cardinality(FineTasksOf(w)) = Len(thresholds)
                  /\ \A t \in DOMAIN thresholds :
                        Cardinality(FineTasksOfPair(w, thresholds[t]))
                            = Cardinality({u \in DOMAIN thresholds : thresholds[u] = thresholds[t]})

\* two seeds with different weights that share a neighbor, two distinct
\* thresholds: two candidates, four tasks
C31_Witness ==
    /\ oPhase = "FINE_RUNNING"
    /\ thresholds = <<20, 50>>
    /\ \E a, b \in DOMAIN topResults :
          /\ topResults[a].params.weights # topResults[b].params.weights
          /\ Range(_generate_neighbor_weights(topResults[a].params.weights, fineStep, TopK))
               \cap Range(_generate_neighbor_weights(topResults[b].params.weights, fineStep, TopK))
                 # {}
    /\ Cardinality(FineCandidateSet(topResults, fineStep)) = 2
    /\ Cardinality(StageTasks("fine")) = 4

-----------------------------------------------------------------------------
\* how many trades of the kind the log holds
Executed(kind) == Cardinality({k \in DOMAIN trade_log : trade_log[k] = kind})

\* the equity the step just made has recorded (the last of the curve)
RecordedEquity == equity_curve[Len(equity_curve)]

\* C32: an iteration marks a win exactly when it executes a sell and the cash
\* after the sell exceeds the equity recorded at that step, and then marks
\* one; an iteration that executes a buy marks none. In every state
\* win_trades <= number of executed sells <= total_trades.
C32_WinsAreWinningSells ==
    /\ [](/\ win_trades <= Executed("sell")
          /\ Executed("sell") <= total_trades
          /\ Executed("buy") + Executed("sell") = total_trades)
    /\ [][(btPc = "loop" /\ lastStep'.i = iStep) =>
            /\ win_trades' \in {win_trades, win_trades + 1}
            /\ win_trades' = win_trades + 1
                  <=> /\ trade_log' = Append(trade_log, "sell")
                      /\ cash_krw' > RecordedEquity'
            /\ trade_log' = Append(trade_log, "buy") => win_trades' = win_trades]_vars

\* a call that has bought and then sold with a gain
C32_Witness ==
    /\ trade_log = <<"buy", "sell">>
    /\ lastStep.kind = "sell"
    /\ cash_krw > RecordedEquity
    /\ win_trades = 1

-----------------------------------------------------------------------------
\* param_list of the coarse stage (line 132)
CoarseParamList == ParamList(_generate_weight_grid(coarseStep, strategyKeys), thresholds)

\* C33: a cycle with enough candles whose coarse parameter list is empty
\* submits no backtest in either stage, never calls save_optimizer_result,
\* leaves optimizer_results as it was, and ends returned, not failed.
C33_EmptyCoarseIsNoOp ==
    /\ []((numCandles >= MinCandles /\ CoarseParamList = <<>>) =>
             /\ oPhase \in {"IDLE", "COARSE_RUNNING", "COARSE_DONE", "RETURNED"}
             /\ tasks = <<>>
             /\ coarseResults = <<>> /\ topResults = <<>> /\ fineResults = <<>>
             /\ saveCalls = <<>>
             /\ (~ENABLED OptNext) => oPhase = "RETURNED")
    /\ [][(numCandles >= MinCandles /\ CoarseParamList = <<>>) => rows' = rows]_vars

\* a cycle with 200 candles and no threshold that has returned after its
\* coarse stage, the table holding an earlier best row
C33_Witness ==
    /\ numCandles >= MinCandles
    /\ CoarseParamList = <<>>
    /\ oPhase = "RETURNED"
    /\ collected = 0
    /\ BestIds(rows) # {}

-----------------------------------------------------------------------------
\* C37: an iteration of the backtest executes at most one trade, a buy or a
\* sell; a sell is executed only when the position held is above 0, so the
\* trade before a sell is a buy: every sell has a buy since the previous
\* sell, and at every point the sells executed are at most the buys.
C37_OneTradePerStepSellAfterBuy ==
    /\ [](/\ \A k \in DOMAIN trade_log :
                trade_log[k] = "sell" => (k > 1 /\ trade_log[k - 1] = "buy")
          /\ Executed("sell") <= Executed("buy")
          /\ coin_qty > 0 <=> (trade_log # <<>> /\ trade_log[Len(trade_log)] = "buy"))
    /\ [][(btPc = "loop" /\ lastStep'.i = iStep) =>
            /\ \/ trade_log' = trade_log /\ total_trades' = total_trades
               \/ /\ trade_log' \in {Append(trade_log, "buy"), Append(trade_log, "sell")}
                  /\ total_trades' = total_trades + 1
            /\ trade_log' = Append(trade_log, "sell") => (coin_qty > 0 /\ coin_qty' = 0)
            /\ trade_log' = Append(trade_log, "buy") => coin_qty' > coin_qty]_vars

\* a step that sold what an earlier step bought, at a loss
C37_Witness ==
    /\ trade_log = <<"buy", "sell">>
    /\ lastStep.kind = "sell"
    /\ lastStep.coin > 0
    /\ coin_qty = 0
    /\ win_trades = 0

-----------------------------------------------------------------------------
\* the step is a call of collect_data that committed
CallCommitted == Len(cCalls') = Len(cCalls) + 1 /\ cCalls'[Len(cCalls')] >= 0

\* C34: the candle table holds at most one row per (timeframe, ts), and a
\* call of collect_data that gets the exchange response the call before it
\* got (and committed) leaves the table as it is.
C34_UpsertIdempotent ==
    /\ [](\A r, q \in candleStore : (r.timeframe = q.timeframe /\ r.ts = q.ts) => r = q)
    /\ [][(CallCommitted /\ cResponse'.again) => candleStore' = candleStore]_vars

\* a run got the response of the run before it, two candles, newest first,
\* and wrote the newest row again
C34_Witness ==
    /\ cPc = "done"
    /\ cOutcome = "returned"
    /\ cResponse.kind = "json" /\ cResponse.again
    /\ cCalls = <<1>>
    /\ cTimeframe = "1m"
    /\ cResponse.raw = <<[ts |-> 2, close |-> 11], [ts |-> 1, close |-> 11]>>
    /\ candleStore = {[timeframe |-> "1m", ts |-> 1, close |-> 11],
                      [timeframe |-> "1m", ts |-> 2, close |-> 11]}

-----------------------------------------------------------------------------
\* a call of the run raised
SomeCallRaised == \E k \in DOMAIN cCalls : cCalls[k] = -1

\* C36: a run of collector.run calls collect_data at most twice; it makes
\* the second call if and only if the first returned 0 (no row upserted); a
\* call that raises is the last of its run, and the run then raises to its
\* caller, as it returns when no call raised.
C36_RetryOnceIffNothingUpserted ==
    /\ Len(cCalls) <= 2
    /\ Len(cCalls) = 2 => cCalls[1] = 0
    /\ (cPc = "done" \/ (cPc = "idle" /\ cOutcome # "none")) =>
          /\ (cCalls # <<>> /\ cCalls[1] = 0) => Len(cCalls) = 2
          /\ cPc = "idle" => (cOutcome = "raised" <=> SomeCallRaised)
    /\ \A k \in DOMAIN cCalls : cCalls[k] = -1 => k = Len(cCalls)
    /\ cPc = "raised" <=> (SomeCallRaised /\ cPc # "idle")
    /\ cPc = "done" => ~SomeCallRaised

\* a run whose first call upserted nothing and whose second call upserted a
\* row has returned
C36_Witness ==
    /\ cPc = "idle"
    /\ cCalls = <<0, 1>>
    /\ cOutcome = "returned"

-----------------------------------------------------------------------------
\* C35: in every tick, run_trade is sent or started only when collect_data
\* of that tick has ended successfully; while collect_data of the tick has
\* not ended, and when it has failed, run_trade of the tick is not started.
C35_TradeOnlyAfterCollectSucceeded ==
    \A t \in DOMAIN chTicks :
        /\ chTicks[t].trade # "none" => chTicks[t].collect = "succeeded"
        /\ chTicks[t].collect = "failed" => chTicks[t].trade = "none"
        /\ chTicks[t].collect # "none" => chTicks[t].coord = "done"

\* the first tick's collect_data failed and nothing follows it, while
\* run_trade of the second tick runs after its collect_data succeeded
C35_Witness ==
    /\ Len(chTicks) >= 2
    /\ chTicks[1].collect = "failed" /\ chTicks[1].trade = "none"
    /\ chTicks[2].collect = "succeeded" /\ chTicks[2].trade = "running"

-----------------------------------------------------------------------------
\* the rows of table orders that record the order of this invocation
RunOrderRows ==
    {r \in dbOrders : /\ r.exchange_order_id = trOrder.uuid
                      /\ r.side = trOrder.side
                      /\ r.price = trOrder.price
                      /\ r.quantity = trOrder.volume}

\* fetch_order has been called
FetchCalled ==
    \/ trPc = "trades" /\ trOrder.uuid # "none"
    \/ trPc = "raised" /\ trOut.at \in {"fetch_order", "insert_trade", "commit_trades"}
    \/ trPc = "returned" /\ trOut.kind = "executed" /\ trOrder.uuid # "none"

\* C38: when fetch_order is called, the order row of the accepted order is
\* committed; when fetch_order or the insert of a trade fails, run_trade
\* raises, no trade row of the order is committed or left in the
\* transaction, and the order row stays committed with status 'new'.
C38_OrderRowSurvivesFillFailure ==
    /\ FetchCalled =>
          /\ Cardinality(RunOrderRows) = 1
          /\ \A r \in RunOrderRows : r.status = "new"
    /\ (trOut.kind = "raised" /\ trOut.at \in {"fetch_order", "insert_trade"}) =>
          /\ trPc = "raised"
          /\ txRows = {}
          /\ \A r \in RunOrderRows : \A t \in dbTrades : t.order_id # r.id
          /\ exOrders # <<>>

\* the second of two fetched trades could not be inserted: the first is
\* rolled back, the order row is the second row of the table
C38_Witness ==
    /\ trOut = [kind |-> "raised", at |-> "insert_trade"]
    /\ Len(trFills) = 1
    /\ trFills[1].n = 2
    /\ EarlierOrder \in dbOrders
    /\ \E r \in RunOrderRows : r.id = 2 /\ r.status = "new"
    /\ dbTrades = EarlierTrades

-----------------------------------------------------------------------------
\* the score run_trade computes
TrScore == ensemble_signal(trIn.prices, trIn.weights)

\* C39: an invocation of run_trade has at most one order accepted by the
\* exchange; a buy only with score >= threshold, available KRW above 5000
\* and target_price * volume above 5000; a sell only with score <=
\* -threshold, of the whole available coin balance, worth more than 5000 at
\* the target price; with fewer than 3 prices, or a score strictly between
\* -threshold and threshold, no order is computed or placed.
C39_AtMostOneGuardedOrder ==
    /\ Len(exOrders) <= 1
    /\ \A k \in DOMAIN exOrders :
          /\ Len(trIn.prices) >= 3
          /\ exOrders[k].side \in {"buy", "sell"}
          /\ exOrders[k].side = "buy" =>
                /\ ~FxLt(TrScore, trIn.threshold)
                /\ trIn.krw.balance - trIn.krw.locked > 5000 * MoneyScale
                /\ PriceTimesQty(exOrders[k].price, exOrders[k].volume) > 5000 * MoneyScale
          /\ exOrders[k].side = "sell" =>
                /\ ~FxLt(FxNeg(trIn.threshold), TrScore)
                /\ exOrders[k].volume = trIn.coin.balance - trIn.coin.locked
                /\ PriceTimesQty(exOrders[k].price, exOrders[k].volume) > 5000 * MoneyScale
    /\ (trPc # "off" /\ trPc # "start"
          /\ (\/ Len(trIn.prices) < 3
              \/ FxLt(FxNeg(trIn.threshold), TrScore) /\ FxLt(TrScore, trIn.threshold))) =>
          /\ trOrder = NoOrder
          /\ exOrders = <<>>

\* a sell of the four coins not locked, of five held, accepted and recorded
C39_Witness ==
    /\ trPc = "returned"
    /\ trOut = [kind |-> "executed", side |-> "sell"]
    /\ Len(exOrders) = 1
    /\ exOrders[1].side = "sell"
    /\ trIn.coin.locked > 0
    /\ exOrders[1].volume = 400000000

====
